---- MODULE Spec2Model ----
(***************************************************************************)
(* Model of the device communication core of idotmatrix-overclocked:       *)
(*   - pkg/protocol: SendGIF (animated image upload with per-chunk         *)
(*     acknowledgement), chunkBuffer, the Device notification queue;       *)
(*   - pkg/server: the connection manager (withDevice, connectInBackground,*)
(*     reconnect, IsConnected).                                            *)
(*   - pkg/protocol: SendImage over WriteData.                             *)
(* The specifications share the module: SpecGIF runs one SendGIF call      *)
(* against a device whose notifications are arbitrary, SpecGIFDevice runs  *)
(* it against a device that replies once per chunk, SpecImage runs one     *)
(* SendImage call, SpecServer runs the connection manager with concurrent  *)
(* callers and FairSpecServer schedules its retry goroutines fairly.       *)
(* SpecDevice runs Device.Connect and Device.Disconnect against a scan     *)
(* (FairSpecDevice schedules the steps of Connect fairly), SpecCommand     *)
(* runs one call of SetPixels, SetClockMode or SetTime, and SpecShutdown   *)
(* adds the shutdown goroutine of Server.Start to the connection manager.  *)
(* SpecSnakeStart adds the handler that starts a snake game, SpecSnake     *)
(* runs the snake manager with the goroutines of its games, and SpecBoard  *)
(* runs one Board.ClearLines call of the tetris game.                      *)
(***************************************************************************)
EXTENDS Integers, Sequences, FiniteSets, TLC

VARIABLES
    \* ---- protocol.Device (the notification side of one session)
    responseChan,   \* d.responseChan: buffered channel of capacity 1 (a sequence)
    chanMade,       \* d.responseChan != nil
    chanOld,        \* history, parallel to responseChan: TRUE for a notification
                    \* the device emitted for an operation before this SendGIF
    pending,        \* a notification of an earlier operation that the BLE stack
                    \* has not delivered yet: "none" | "inflight" | "delivered"
    sent,           \* history: the status replies the device emitted for the
                    \* chunks of this SendGIF, in order
    \* ---- one SendGIF call
    gifData,        \* the argument gifData
    crc,            \* the local crc
    ci,             \* index of the chunk being sent (0-based, as in the code)
    pi,             \* index of the next BLE packet of chunk ci (0-based)
    gpc,            \* position of the call
    gifResult,      \* what SendGIF returned
    ops,            \* history: every DeviceConnection call SendGIF made, in order
    \* ---- server.Server
    mu,             \* s.mu: its holder, or NoOne
    connected,      \* s.connected
    reconnecting,   \* s.reconnecting
    device,         \* s.device: a session number, 0 = nil
    nextDevice,     \* number of Device values built so far by NewDevice
    link,           \* per Device: link to the peripheral, "none" | "up" | "down"
    btDevice,       \* per Device: d.btDevice != nil
    cpc,            \* per caller: position inside withDevice
    cdev,           \* per caller: the local variable device
    cret,           \* per caller: what the last withDevice call returned
    cerr,           \* per caller: the local variable err (what fn returned)
    lpc,            \* per retry-loop goroutine: position
    wlog,           \* history: the most recent WritePacket calls of the units of
                    \* work that are still executing, in order (the caller of each)
    \* ---- one SendImage call
    imageData,      \* the argument imageData
    chunks,         \* the local chunks
    ici,            \* index of the chunk being sent (ci of SendImage)
    icursor,        \* the local cursor of WriteData
    ipc,            \* position of the call
    imgResult,      \* what SendImage returned
    written,        \* history: every WritePacket call of SendImage, in order
    \* ---- one protocol.Device: Connect and Disconnect
    targetAddr,     \* the argument of Connect (a string as a sequence of characters)
    adverts,        \* the advertisements the radio hears during the scan, in order
    si,             \* number of advertisements handed to the scan callback
    scanResult,     \* d.scanResult
    dpc,            \* position of the Connect call
    derr,           \* what Connect returned
    dlink,          \* the link to the peripheral: "none" | "up" | "down"
    dbt,            \* d.btDevice != nil
    dnotif,         \* the notification subscription is active
    dret,           \* history: what each Disconnect call returned, in order
    dsvc,           \* history: what DiscoverServices returned to Connect
    dchars,         \* history: what DiscoverCharacteristics returned to Connect
    dwc,            \* d.writeCharacteristic is set
    drc,            \* d.readCharacteristic is set
    \* ---- one command call: SetPixels, SetClockMode or SetTime
    cmd,            \* the call and its arguments
    cmdpc,          \* position of the call
    cmdOut,         \* history: the packets the call wrote (WritePacket), in order
    cmdRet,         \* what the call returned
    \* ---- graceful shutdown of the HTTP server (server.go:61-87)
    shutdown,       \* position of the shutdown goroutine
    refused,        \* TRUE once the closed HTTP server turned a request away
    \* ---- server.SnakeManager and the goroutines of its games
    session,        \* m.session: the game of the session, 0 for nil
    smu,            \* m.mu: "free", or "stopping" while StopSession waits
    nextGame,       \* count of games created so far
    grun,           \* g.running of each game
    gpos,           \* position of each game's goroutine
    gclosed,        \* input.closed of each game's ChannelInput
    gkey,           \* the key waiting in each game's input channel
    gdev,           \* history: the session each game was created with
    sret,           \* what the last StartSession returned
    \* ---- one Board.ClearLines call (tetris)
    Cells,          \* b.Cells
    cells0,         \* history: b.Cells when ClearLines was called
    by,             \* the row y of the loop of ClearLines
    linesCleared,   \* linesCleared
    bpc             \* position of the call

devVars == <<chanOld, pending, sent>>
gifVars == <<responseChan, chanMade, gifData, crc, ci, pi, gpc, gifResult, ops, devVars>>
srvVars == <<mu, connected, reconnecting, device, nextDevice, link, btDevice,
             cpc, cdev, cret, cerr, lpc, wlog>>
imgVars == <<imageData, chunks, ici, icursor, ipc, imgResult, written>>
devcVars == <<targetAddr, adverts, si, scanResult, dpc, derr, dlink, dbt, dnotif,
              dret,
              dsvc, dchars, dwc, drc>>
cmdVars == <<cmd, cmdpc, cmdOut, cmdRet>>
shutVars == <<shutdown, refused>>
snkVars == <<session, smu, nextGame, grun, gpos, gclosed, gkey, gdev, sret>>
brdVars == <<Cells, cells0, by, linesCleared, bpc>>
vars == <<gifVars, srvVars, imgVars, devcVars, cmdVars, shutVars, snkVars, brdVars>>

(***************************************************************************)
(* Bounds of the model.                                                    *)
(***************************************************************************)
\* Largest number of 4096-byte chunks a payload of the model splits into.
MaxChunks == 3
\* Concurrent callers of withDevice (HTTP handlers, game loops).
NumCallers == 2
\* Goroutines started by "go s.reconnect()" that may be alive at once.
MaxReconnects == 2
\* Device values NewDevice builds during one run.
MaxDevices == 2
\* Number of most recent writes of the executing units of work kept in wlog.
LogWindow == 3
\* Advertisements heard during one scan.
MaxAdverts == 3
\* Disconnect calls made on one Device.
MaxDisconnects == 2

(***************************************************************************)
(* Program constants.                                                      *)
(***************************************************************************)
gifHeaderSize == 16
gifChunkSize == 4096
gifBLEPacketSize == 509
gifTypeNoTimeSignature == 12
\* capacity of responseChan: make(chan []byte, 1)
responseChanCap == 1
\* graffiti_test.go:138, 141 (SendImage) and part_017:217 (WriteData)
headerSize == 9
imageChunkSize == 4096
maxMTU == 514

min(a, b) == IF a < b THEN a ELSE b

(***************************************************************************)
(* Bytes and little-endian encoding (encoding/binary.LittleEndian).        *)
(***************************************************************************)
PutUint16(v) == << v % 256, (v \div 256) % 256 >>

\* A uint32 is kept as its two 16-bit halves (TLC's integers are 32-bit signed).
ToUint32(n) == [hi |-> (n \div 65536) % 65536, lo |-> n % 65536]

PutUint32(w) ==
    << w.lo % 256, (w.lo \div 256) % 256, w.hi % 256, (w.hi \div 256) % 256 >>

Uint16(b) == b[1] + 256 * b[2]

Uint32(b) == [hi |-> b[3] + 256 * b[4], lo |-> b[1] + 256 * b[2]]

(***************************************************************************)
(* CRC-32/IEEE as hash/crc32.ChecksumIEEE computes it: reflected           *)
(* polynomial 0xEDB88320, initial value and final xor 0xFFFFFFFF, one      *)
(* table lookup per byte: crc = tab[byte(crc)^v] ^ (crc >> 8).             *)
(***************************************************************************)
RECURSIVE XorBits(_, _)
XorBits(a, b) ==
    IF a = 0 THEN b
    ELSE IF b = 0 THEN a
    ELSE ((a + b) % 2) + 2 * XorBits(a \div 2, b \div 2)

\* xor of two 4-bit values, tabulated once
XorNibble == [a \in 0..15 |-> [b \in 0..15 |-> XorBits(a, b)]]

\* xor of two values below 2^16
Xor(a, b) ==
      XorNibble[a % 16][b % 16]
    + 16 * XorNibble[(a \div 16) % 16][(b \div 16) % 16]
    + 256 * XorNibble[(a \div 256) % 16][(b \div 256) % 16]
    + 4096 * XorNibble[a \div 4096][b \div 4096]

Xor32(v, w) == [hi |-> Xor(v.hi, w.hi), lo |-> Xor(v.lo, w.lo)]

Shr32(w, k) ==
    LET p == 2 ^ k
    IN  [hi |-> w.hi \div p, lo |-> (w.lo \div p) + (65536 \div p) * (w.hi % p)]

\* crc32.IEEE = 0xedb88320
IEEEPoly == [hi |-> 60856, lo |-> 33568]

AllOnes32 == [hi |-> 65535, lo |-> 65535]

RECURSIVE crcTableEntry(_, _)
crcTableEntry(c, k) ==
    IF k = 0 THEN c
    ELSE crcTableEntry(IF c.lo % 2 = 1 THEN Xor32(Shr32(c, 1), IEEEPoly)
                                        ELSE Shr32(c, 1), k - 1)

IEEETable == [n \in 0..255 |-> crcTableEntry(ToUint32(n), 8)]

\* simpleUpdate over data[lo..hi], split in halves to keep the recursion shallow
RECURSIVE crcUpdate(_, _, _, _)
crcUpdate(c, data, lo, hi) ==
    IF lo > hi THEN c
    ELSE IF lo = hi
         THEN Xor32(IEEETable[Xor(c.lo % 256, data[lo])], Shr32(c, 8))
         ELSE LET mid  == (lo + hi) \div 2
                  left == crcUpdate(c, data, lo, mid)
              \* the test makes TLC evaluate left before it descends to the right
              IN  IF left.lo >= 0 THEN crcUpdate(left, data, mid + 1, hi) ELSE left

ChecksumIEEE(data) == Xor32(AllOnes32, crcUpdate(AllOnes32, data, 1, Len(data)))

(***************************************************************************)
(* chunkBuffer: the loop over cursor/remaining.                             *)
(***************************************************************************)
RECURSIVE chunkLoop(_, _, _, _)
chunkLoop(data, chunkSize, cursor, remaining) ==
    IF remaining > 0
    THEN LET wl == min(chunkSize, remaining)
         IN  << SubSeq(data, cursor + 1, cursor + wl) >>
                 \o chunkLoop(data, chunkSize, cursor + wl, remaining - wl)
    ELSE << >>

\* mutant: the last, shorter chunk is left out
chunkBuffer_DropTail(data, chunkSize) ==
    chunkLoop(data, chunkSize, 0, Len(data) - (Len(data) % chunkSize))

chunkBuffer(data, chunkSize) == chunkLoop(data, chunkSize, 0, Len(data))

(***************************************************************************)
(* Payloads of the model: the empty payload, one byte, a payload whose     *)
(* header+chunk fills exactly two BLE packets, exactly one chunk, and one  *)
(* byte more than k full chunks.  The bytes differ from chunk to chunk.    *)
(***************************************************************************)
Payload(n) == [i \in 1..n |-> (i - 1) % 251]

PayloadLens ==
    {0, 1, 2 * gifBLEPacketSize - gifHeaderSize, gifChunkSize}
        \cup {k * gifChunkSize + 1 : k \in 1..(MaxChunks - 1)}

(***************************************************************************)
(* Device status replies and other notifications a device may deliver.     *)
(***************************************************************************)
responseOKContinue == <<5, 0, 1, 0, 1>>
responseComplete == <<5, 0, 1, 0, 3>>

Notifications ==
    { responseOKContinue, responseComplete,
      <<5, 0, 1, 0, 2>>,        \* unknown status byte
      <<5, 0, 1>>,              \* short
      <<5, 0, 2, 0, 1>>,        \* another command's frame
      <<5, 0, 1, 0, 1, 7>>,     \* status frame followed by one more byte
      <<5, 0, 1, 0, 3, 7>> }

(***************************************************************************)
(* SendGIF: header of chunk ci (gif.go:41-73) and its BLE packets.         *)
(***************************************************************************)
gifChunks(data) == chunkBuffer(data, gifChunkSize)

\* mutant: every chunk is flagged as the first
gifHeader_AlwaysFirst(index, chunk, data, sum) ==
       PutUint16((Len(chunk) + gifHeaderSize) % 65536)
    \o << 1, 0, 0 >>
    \o PutUint32(ToUint32(Len(data)))
    \o PutUint32(sum)
    \o << 0, 0, gifTypeNoTimeSignature >>

\* mutant: the total-length field carries the length of the chunk
gifHeader_ChunkLength(index, chunk, data, sum) ==
       PutUint16((Len(chunk) + gifHeaderSize) % 65536)
    \o << 1, 0, IF index > 0 THEN 2 ELSE 0 >>
    \o PutUint32(ToUint32(Len(chunk)))
    \o PutUint32(sum)
    \o << 0, 0, gifTypeNoTimeSignature >>

gifHeader(index, chunk, data, sum) ==
       PutUint16((Len(chunk) + gifHeaderSize) % 65536)
    \o << 1, 0, IF index > 0 THEN 2 ELSE 0 >>
    \o PutUint32(ToUint32(Len(data)))
    \o PutUint32(sum)
    \o << 0, 0, gifTypeNoTimeSignature >>

blePackets(index, data, sum) ==
    LET chunk == gifChunks(data)[index + 1]
        largePacket == gifHeader(index, chunk, data, sum) \o chunk
    IN  chunkBuffer(largePacket, gifBLEPacketSize)

(***************************************************************************)
(* SendGIF: what the loop does with the outcome of ReadResponse            *)
(* (gif.go:97-126).  readOk is err == nil.                                 *)
(*   "next"     the loop goes on (or ends, after the last chunk)           *)
(*   "cached"   return nil from inside the loop                            *)
(*   others     the error returned                                         *)
(***************************************************************************)
\* mutant: a complete reply to the first chunk is not taken as a cache hit
replyVerdict_NoCacheHit(readOk, response, isFirstChunk, isLastChunk) ==
    IF ~readOk THEN "read_failed"
    ELSE IF /\ Len(response) >= 5
            /\ response[1] = 5 /\ response[2] = 0
            /\ response[3] = 1 /\ response[4] = 0
         THEN IF response[5] = 1 THEN "next"
              ELSE IF response[5] = 3
                   THEN IF isLastChunk THEN "next"
                        ELSE IF isFirstChunk THEN "premature_complete"
                        ELSE "premature_complete"
                   ELSE "unexpected_code"
         ELSE "unexpected_format"

\* mutant: a complete reply before the last chunk lets the loop go on
replyVerdict_CompleteContinues(readOk, response, isFirstChunk, isLastChunk) ==
    IF ~readOk THEN "read_failed"
    ELSE IF /\ Len(response) >= 5
            /\ response[1] = 5 /\ response[2] = 0
            /\ response[3] = 1 /\ response[4] = 0
         THEN IF response[5] = 1 THEN "next"
              ELSE IF response[5] = 3
                   THEN IF isLastChunk THEN "next"
                        ELSE IF isFirstChunk THEN "next"
                        ELSE "next"
                   ELSE "unexpected_code"
         ELSE "unexpected_format"

\* mutant: a complete reply to a middle chunk ends the upload with success
replyVerdict_MiddleCompleteIsSuccess(readOk, response, isFirstChunk, isLastChunk) ==
    IF ~readOk THEN "read_failed"
    ELSE IF /\ Len(response) >= 5
            /\ response[1] = 5 /\ response[2] = 0
            /\ response[3] = 1 /\ response[4] = 0
         THEN IF response[5] = 1 THEN "next"
              ELSE IF response[5] = 3
                   THEN IF isLastChunk THEN "next"
                        ELSE IF isFirstChunk THEN "cached"
                        ELSE "cached"
                   ELSE "unexpected_code"
         ELSE "unexpected_format"

\* mutant: a failed read is skipped and the loop goes on
replyVerdict_ReadErrorIgnored(readOk, response, isFirstChunk, isLastChunk) ==
    IF ~readOk THEN "next"
    ELSE IF /\ Len(response) >= 5
            /\ response[1] = 5 /\ response[2] = 0
            /\ response[3] = 1 /\ response[4] = 0
         THEN IF response[5] = 1 THEN "next"
              ELSE IF response[5] = 3
                   THEN IF isLastChunk THEN "next"
                        ELSE IF isFirstChunk THEN "cached"
                        ELSE "premature_complete"
                   ELSE "unexpected_code"
         ELSE "unexpected_format"

\* mutant: an unknown status byte lets the loop go on
replyVerdict_AnyStatusContinues(readOk, response, isFirstChunk, isLastChunk) ==
    IF ~readOk THEN "read_failed"
    ELSE IF /\ Len(response) >= 5
            /\ response[1] = 5 /\ response[2] = 0
            /\ response[3] = 1 /\ response[4] = 0
         THEN IF response[5] = 1 THEN "next"
              ELSE IF response[5] = 3
                   THEN IF isLastChunk THEN "next"
                        ELSE IF isFirstChunk THEN "cached"
                        ELSE "premature_complete"
                   ELSE "next"
         ELSE "unexpected_format"

replyVerdict(readOk, response, isFirstChunk, isLastChunk) ==
    IF ~readOk THEN "read_failed"
    ELSE IF /\ Len(response) >= 5
            /\ response[1] = 5 /\ response[2] = 0
            /\ response[3] = 1 /\ response[4] = 0
         THEN IF response[5] = 1 THEN "next"
              ELSE IF response[5] = 3
                   THEN IF isLastChunk THEN "next"
                        ELSE IF isFirstChunk THEN "cached"
                        ELSE "premature_complete"
                   ELSE "unexpected_code"
         ELSE "unexpected_format"

(***************************************************************************)
(* Device.ReadResponse, Device.DrainResponses and the notification         *)
(* callback, on the channel value.                                         *)
(***************************************************************************)
\* mutant: a full queue keeps the newest notification
notifyCallback_DropOldest(chan, data) ==
    IF Len(chan) < responseChanCap THEN Append(chan, data) ELSE Append(Tail(chan), data)

\* select { case responseChan <- data: default: }
notifyCallback(chan, data) ==
    IF Len(chan) < responseChanCap THEN Append(chan, data) ELSE chan

\* mutant: the receive leaves the notification in the channel
ReadResponse_Peek(made, chan) ==
    IF ~made THEN [ok |-> FALSE, data |-> << >>, chan |-> chan]
    ELSE IF Len(chan) > 0 THEN [ok |-> TRUE, data |-> Head(chan), chan |-> chan]
    ELSE [ok |-> FALSE, data |-> << >>, chan |-> chan]

\* <<err == nil, data, channel afterwards>>; an empty channel times out
ReadResponse(made, chan) ==
    IF ~made THEN [ok |-> FALSE, data |-> << >>, chan |-> chan]
    ELSE IF Len(chan) > 0 THEN [ok |-> TRUE, data |-> Head(chan), chan |-> Tail(chan)]
    ELSE [ok |-> FALSE, data |-> << >>, chan |-> chan]

DrainResponses(made, chan) == IF ~made THEN chan ELSE << >>

\* the entries of ops; old: the notification a read returned was emitted for
\* an earlier operation
OpDrain == [op |-> "drain", ci |-> 0, data |-> << >>, ok |-> TRUE, old |-> FALSE]
OpWrite(index, pkt, ok) ==
    [op |-> "write", ci |-> index, data |-> pkt, ok |-> ok, old |-> FALSE]
OpRead(index, r, old) ==
    [op |-> "read", ci |-> index, data |-> r.data, ok |-> r.ok, old |-> r.ok /\ old]

(***************************************************************************)
(* Actions of one SendGIF call.                                            *)
(***************************************************************************)
\* gif.go:22-37: drain, stabilisation delay, checksum, chunking
SendGIFStart ==
    /\ gpc = "call"
    /\ responseChan' = DrainResponses(chanMade, responseChan)
    /\ chanOld' = DrainResponses(chanMade, chanOld)
    /\ crc' = ChecksumIEEE(gifData)
    /\ ops' = Append(ops, OpDrain)
    /\ ci' = 0
    /\ pi' = 0
    /\ IF Len(gifChunks(gifData)) = 0
       THEN gpc' = "done" /\ gifResult' = "nil"
       ELSE gpc' = "write" /\ gifResult' = gifResult
    /\ UNCHANGED <<chanMade, gifData, pending, sent, srvVars, imgVars, devcVars, cmdVars, shutVars, snkVars, brdVars>>

\* gif.go:86-93: one WritePacket of the inner loop; the link write may fail
SendGIFWrite ==
    /\ gpc = "write"
    /\ LET pkts == blePackets(ci, gifData, crc)
       IN  \E ok \in BOOLEAN :
             /\ ops' = Append(ops, OpWrite(ci, pkts[pi + 1], ok))
             /\ IF ~ok
                THEN gpc' = "done" /\ gifResult' = "send_failed" /\ pi' = pi
                ELSE IF pi + 1 = Len(pkts)
                     THEN gpc' = "read" /\ gifResult' = gifResult /\ pi' = pi
                     ELSE gpc' = "write" /\ gifResult' = gifResult /\ pi' = pi + 1
    /\ UNCHANGED <<responseChan, chanMade, gifData, crc, ci, devVars, srvVars, imgVars, devcVars, cmdVars, shutVars, snkVars, brdVars>>

\* gif.go:95-128: ReadResponse and the interpretation of the reply
SendGIFRead ==
    /\ gpc = "read"
    /\ LET r == ReadResponse(chanMade, responseChan)
           n == Len(gifChunks(gifData))
           v == replyVerdict(r.ok, r.data, ci = 0, ci = n - 1)
       IN  /\ responseChan' = r.chan
           /\ chanOld' = IF Len(r.chan) < Len(responseChan) THEN Tail(chanOld)
                                                            ELSE chanOld
           /\ ops' = Append(ops, OpRead(ci, r, chanOld # << >> /\ Head(chanOld)))
           /\ IF v = "next" /\ ci + 1 < n
              THEN gpc' = "write" /\ ci' = ci + 1 /\ pi' = 0 /\ gifResult' = gifResult
              ELSE /\ gpc' = "done"
                   /\ ci' = ci
                   /\ pi' = pi
                   /\ gifResult' = IF v \in {"next", "cached"} THEN "nil" ELSE v
    /\ UNCHANGED <<chanMade, gifData, crc, pending, sent, srvVars, imgVars, devcVars, cmdVars, shutVars, snkVars, brdVars>>

\* the BLE stack delivers a notification to the callback of part_017:137-146
Notify ==
    /\ chanMade
    /\ gpc # "done"
    /\ \E data \in Notifications :
         responseChan' = notifyCallback(responseChan, data)
    /\ chanOld' = notifyCallback(chanOld, FALSE)
    /\ UNCHANGED <<chanMade, gifData, crc, ci, pi, gpc, gifResult, ops,
                   pending, sent, srvVars, imgVars, devcVars, cmdVars, shutVars, snkVars, brdVars>>

\* replies of a device that answers every chunk with one 5-byte status frame
DeviceReplies == {responseOKContinue, responseComplete, <<5, 0, 1, 0, 2>>}

\* chunks the device has received completely (every packet of gif.go:87-93
\* was written)
chunksReceived ==
    IF gpc = "call" THEN 0
    ELSE IF gpc = "write" THEN ci
    ELSE IF gpc = "read" THEN ci + 1
    ELSE IF gifResult = "send_failed" \/ Len(gifData) = 0 THEN ci
    ELSE ci + 1

\* the device sends its status reply to the next completely received chunk;
\* the BLE stack hands it to the callback of part_017:137-146
DeviceReply ==
    /\ chanMade
    /\ Len(sent) < chunksReceived
    /\ \E data \in DeviceReplies :
         /\ responseChan' = notifyCallback(responseChan, data)
         /\ sent' = Append(sent, data)
    /\ chanOld' = notifyCallback(chanOld, FALSE)
    /\ UNCHANGED <<chanMade, gifData, crc, ci, pi, gpc, gifResult, ops,
                   pending, srvVars, imgVars, devcVars, cmdVars, shutVars, snkVars, brdVars>>

\* the BLE stack delivers the notification of an earlier operation
StaleNotify ==
    /\ chanMade
    /\ pending = "inflight"
    /\ \E data \in {responseOKContinue, responseComplete} :
         responseChan' = notifyCallback(responseChan, data)
    /\ chanOld' = notifyCallback(chanOld, TRUE)
    /\ pending' = "delivered"
    /\ UNCHANGED <<chanMade, gifData, crc, ci, pi, gpc, gifResult, ops,
                   sent, srvVars, imgVars, devcVars, cmdVars, shutVars, snkVars, brdVars>>

(***************************************************************************)
(* server.Server: the connection manager.                                  *)
(***************************************************************************)
Callers == 1..NumCallers
\* goroutine 0 runs connectInBackground (started by Start), the others reconnect
Loops == 0..MaxReconnects
Devices == 1..MaxDevices

NoOne == << >>
LoopHolder(g) == <<"loop", g>>
CallerHolder(c) == <<"caller", c>>

\* errors a unit of work returns, by the text of the message
FnErrors ==
    {"nil", "timeout waiting for response", "invalid image",
     "chunk 1: read response failed: timeout waiting for response",
     "chunk 2/3: device returned 'upload complete' prematurely (expected 'continue')",
     "chunk 1: unexpected response code: 2",
     "chunk 1: unexpected response format: [5 0 1]",
     "write failed: Not Connected"}

\* unicode.ToLower on the characters of the model
ToLowerChar(c) ==
    CASE c = "A" -> "a" [] c = "B" -> "b" [] c = "C" -> "c" [] c = "D" -> "d"
      [] c = "E" -> "e" [] c = "F" -> "f" [] c = "G" -> "g" [] c = "H" -> "h"
      [] c = "I" -> "i" [] c = "J" -> "j" [] c = "K" -> "k" [] c = "L" -> "l"
      [] c = "M" -> "m" [] c = "N" -> "n" [] c = "O" -> "o" [] c = "P" -> "p"
      [] c = "Q" -> "q" [] c = "R" -> "r" [] c = "S" -> "s" [] c = "T" -> "t"
      [] c = "U" -> "u" [] c = "V" -> "v" [] c = "W" -> "w" [] c = "X" -> "x"
      [] c = "Y" -> "y" [] c = "Z" -> "z"
      [] OTHER -> c

ToLower(str) == [i \in 1..Len(str) |-> ToLowerChar(str[i])]

\* strings.Contains
Contains(str, substr) ==
    \E i \in 0..(Len(str) - Len(substr)) :
        SubSeq(str, i + 1, i + Len(substr)) = substr

\* err.Error(): the text of each error of the model, character by character
ErrorText(err) ==
    CASE err = "timeout waiting for response" ->
           <<"t", "i", "m", "e", "o", "u", "t", " ", "w", "a", "i", "t",
             "i", "n", "g", " ", "f", "o", "r", " ", "r", "e", "s", "p",
             "o", "n", "s", "e">>
      [] err = "invalid image" ->
           <<"i", "n", "v", "a", "l", "i", "d", " ", "i", "m", "a", "g",
             "e">>
      [] err = "chunk 1: read response failed: timeout waiting for response" ->
           <<"c", "h", "u", "n", "k", " ", "1", ":", " ", "r", "e", "a",
             "d", " ", "r", "e", "s", "p", "o", "n", "s", "e", " ", "f",
             "a", "i", "l", "e", "d", ":", " ", "t", "i", "m", "e", "o",
             "u", "t", " ", "w", "a", "i", "t", "i", "n", "g", " ", "f",
             "o", "r", " ", "r", "e", "s", "p", "o", "n", "s", "e">>
      [] err = "chunk 2/3: device returned 'upload complete' prematurely (expected 'continue')" ->
           <<"c", "h", "u", "n", "k", " ", "2", "/", "3", ":", " ", "d",
             "e", "v", "i", "c", "e", " ", "r", "e", "t", "u", "r", "n",
             "e", "d", " ", "'", "u", "p", "l", "o", "a", "d", " ", "c",
             "o", "m", "p", "l", "e", "t", "e", "'", " ", "p", "r", "e",
             "m", "a", "t", "u", "r", "e", "l", "y", " ", "(", "e", "x",
             "p", "e", "c", "t", "e", "d", " ", "'", "c", "o", "n", "t",
             "i", "n", "u", "e", "'", ")">>
      [] err = "chunk 1: unexpected response code: 2" ->
           <<"c", "h", "u", "n", "k", " ", "1", ":", " ", "u", "n", "e",
             "x", "p", "e", "c", "t", "e", "d", " ", "r", "e", "s", "p",
             "o", "n", "s", "e", " ", "c", "o", "d", "e", ":", " ", "2">>
      [] err = "chunk 1: unexpected response format: [5 0 1]" ->
           <<"c", "h", "u", "n", "k", " ", "1", ":", " ", "u", "n", "e",
             "x", "p", "e", "c", "t", "e", "d", " ", "r", "e", "s", "p",
             "o", "n", "s", "e", " ", "f", "o", "r", "m", "a", "t", ":",
             " ", "[", "5", " ", "0", " ", "1", "]">>
      [] err = "write failed: Not Connected" ->
           <<"w", "r", "i", "t", "e", " ", "f", "a", "i", "l", "e", "d",
             ":", " ", "N", "o", "t", " ", "C", "o", "n", "n", "e", "c",
             "t", "e", "d">>
      [] OTHER -> << >>

\* mutant: only the bare messages are recognised
isConnectionError_WholeMessage(err) ==
    /\ err # "nil"
    /\ err \in {"device disconnected", "device not connected",
                "connection lost", "timeout waiting for response"}

\* server.go:182-191
isConnectionError(err) ==
    /\ err # "nil"
    /\ LET errStr == ToLower(ErrorText(err))
       IN  \/ Contains(errStr, <<"d", "i", "s", "c", "o", "n", "n", "e",
                                "c", "t", "e", "d">>)
           \/ Contains(errStr, <<"n", "o", "t", " ", "c", "o", "n", "n",
                                "e", "c", "t", "e", "d">>)
           \/ Contains(errStr, <<"c", "o", "n", "n", "e", "c", "t", "i",
                                "o", "n">>)
           \/ Contains(errStr, <<"t", "i", "m", "e", "o", "u", "t">>)

errNotConnected == "device not connected, waiting for connection..."
errReconnecting == "device disconnected, reconnecting..."

\* Device.Disconnect (part_017:155-160) on Device d
Disconnect(lk, bt, d) ==
    IF ~bt[d] THEN lk ELSE [lk EXCEPT ![d] = "down"]

\* mutant: withDevice hands the error of fn back on connection loss
lostError_Original(err) == err

\* server.go:210: what withDevice returns after a connection error err
lostError(err) == errReconnecting

\* mutant: the guard flag is not consulted
alreadyReconnecting_Never(flag) == FALSE

\* mutant: every retry goroutine is turned away
alreadyReconnecting_Always(flag) == TRUE

\* server.go:109-112, 149-152: the guard "if s.reconnecting { unlock; return }"
alreadyReconnecting(flag) == flag

\* mutant: connect() reports success whatever Device.Connect returned
connectOk_Always(outcome) == TRUE

\* server.go:139-143: connect() returns nil only when Device.Connect did
connectOk(outcome) == outcome = "ok"

\* mutant: withDevice keeps s.mu locked while fn runs
muDuringFn_Held(c) == CallerHolder(c)

\* server.go:196-202: holder of s.mu when withDevice calls fn
muDuringFn(c) == NoOne

\* mutant: the HTTP server keeps serving requests after Shutdown
httpAccepts_Always(sd) == TRUE

\* server.go:73: from httpServer.Shutdown on, no request reaches a handler
httpAccepts(sd) == sd \in {"no", "requested"}

\* server.go:195: a handler invokes withDevice and reaches s.mu.Lock()
withDeviceCall(c) ==
    /\ httpAccepts(shutdown)
    /\ cpc[c] = "idle"
    /\ cpc' = [cpc EXCEPT ![c] = "lock"]
    /\ cret' = [cret EXCEPT ![c] = "pending"]
    /\ cerr' = [cerr EXCEPT ![c] = "none"]
    /\ UNCHANGED <<mu, connected, reconnecting, device, nextDevice, link, btDevice,
                   cdev, lpc, wlog, gifVars, imgVars, devcVars, cmdVars, shutVars, snkVars, brdVars>>

\* server.go:196-202: lock, test s.connected, read s.device, unlock
withDeviceEnter(c) ==
    /\ cpc[c] = "lock"
    /\ mu = NoOne
    /\ IF ~connected
       THEN /\ cpc' = [cpc EXCEPT ![c] = "idle"]
            /\ cret' = [cret EXCEPT ![c] = errNotConnected]
            /\ UNCHANGED <<mu, cdev>>
       ELSE /\ cpc' = [cpc EXCEPT ![c] = "fn"]
            /\ cdev' = [cdev EXCEPT ![c] = device]
            /\ mu' = muDuringFn(c)
            /\ UNCHANGED cret
    /\ UNCHANGED <<connected, reconnecting, device, nextDevice, link, btDevice,
                   cerr, lpc, wlog, gifVars, imgVars, devcVars, cmdVars, shutVars, snkVars, brdVars>>

\* server.go:204: the unit of work writes one packet to the session it was given
fnWritePacket(c) ==
    /\ cpc[c] = "fn"
    /\ LET all == Append(wlog, c)
       IN  wlog' = IF Len(all) > LogWindow THEN Tail(all) ELSE all
    /\ UNCHANGED <<mu, connected, reconnecting, device, nextDevice, link, btDevice,
                   cpc, cdev, cret, cerr, lpc, gifVars, imgVars, devcVars, cmdVars, shutVars, snkVars, brdVars>>

\* server.go:204-212: fn returns; nil and errors that are no connection errors
\* are returned as they are
fnReturn(c) ==
    /\ cpc[c] = "fn"
    /\ \E err \in FnErrors :
         /\ cerr' = [cerr EXCEPT ![c] = err]
         /\ IF isConnectionError(err)
            THEN /\ cpc' = [cpc EXCEPT ![c] = "lost"]
                 /\ UNCHANGED <<cret, cdev>>
            ELSE /\ cpc' = [cpc EXCEPT ![c] = "idle"]
                 /\ cret' = [cret EXCEPT ![c] = err]
                 /\ cdev' = [cdev EXCEPT ![c] = 0]
    /\ mu' = IF mu = CallerHolder(c) THEN NoOne ELSE mu
    /\ wlog' = SelectSeq(wlog, LAMBDA w : w # c)
    /\ UNCHANGED <<connected, reconnecting, device, nextDevice, link, btDevice,
                   lpc, gifVars, imgVars, devcVars, cmdVars, shutVars, snkVars, brdVars>>

\* server.go:205-210: connection error: clear s.connected, go s.reconnect()
withDeviceLost(c) ==
    /\ cpc[c] = "lost"
    /\ mu = NoOne
    /\ connected' = FALSE
    /\ \E g \in Loops \ {0} :
         /\ lpc[g] = "free"
         /\ \A h \in Loops \ {0} : h < g => lpc[h] # "free"
         /\ lpc' = [lpc EXCEPT ![g] = "start"]
    /\ cpc' = [cpc EXCEPT ![c] = "idle"]
    /\ cret' = [cret EXCEPT ![c] = lostError(cerr[c])]
    /\ cdev' = [cdev EXCEPT ![c] = 0]
    /\ UNCHANGED <<mu, reconnecting, device, nextDevice, link, btDevice,
                   cerr, wlog, gifVars, imgVars, devcVars, cmdVars, shutVars, snkVars, brdVars>>

\* server.go:216-220: lock, read s.connected, unlock
IsConnected ==
    /\ mu = NoOne
    /\ UNCHANGED vars

\* server.go:108-114
connectInBackgroundStart ==
    /\ lpc[0] = "start"
    /\ mu = NoOne
    /\ IF alreadyReconnecting(reconnecting)
       THEN lpc' = [lpc EXCEPT ![0] = "free"] /\ UNCHANGED reconnecting
       ELSE lpc' = [lpc EXCEPT ![0] = "attempt"] /\ reconnecting' = TRUE
    /\ UNCHANGED <<mu, connected, device, nextDevice, link, btDevice,
                   cpc, cdev, cret, cerr, wlog, gifVars, imgVars, devcVars, cmdVars, shutVars, snkVars, brdVars>>

\* server.go:148-160
reconnectStart(g) ==
    /\ g # 0
    /\ lpc[g] = "start"
    /\ mu = NoOne
    /\ IF alreadyReconnecting(reconnecting)
       THEN /\ lpc' = [lpc EXCEPT ![g] = "free"]
            /\ UNCHANGED <<reconnecting, connected, link>>
       ELSE /\ lpc' = [lpc EXCEPT ![g] = "attempt"]
            /\ reconnecting' = TRUE
            /\ connected' = FALSE
            /\ link' = IF device # 0 THEN Disconnect(link, btDevice, device) ELSE link
    /\ UNCHANGED <<mu, device, nextDevice, btDevice,
                   cpc, cdev, cret, cerr, wlog, gifVars, imgVars, devcVars, cmdVars, shutVars, snkVars, brdVars>>

\* server.go:119-120, 165-168 and 137-139: (after the sleep between attempts)
\* lock, s.device = NewDevice, Connect begins; s.mu stays locked
connectBegin(g) ==
    /\ lpc[g] = "attempt"
    /\ mu = NoOne
    /\ nextDevice < MaxDevices
    /\ mu' = LoopHolder(g)
    /\ nextDevice' = nextDevice + 1
    /\ device' = nextDevice + 1
    /\ lpc' = [lpc EXCEPT ![g] = "connecting"]
    /\ UNCHANGED <<connected, reconnecting, link, btDevice,
                   cpc, cdev, cret, cerr, wlog, gifVars, imgVars, devcVars, cmdVars, shutVars, snkVars, brdVars>>

\* server.go:139-143 with 121-127, 169-177: Connect returns, the loop unlocks.
\*   "ok"       Connect succeeded (link up, d.btDevice set)
\*   "nolink"   Connect failed before the link was made
\*   "nosvc"    Connect failed after btAdapter.Connect (part_017:97-131)
connectEnd(g) ==
    /\ lpc[g] = "connecting"
    /\ mu = LoopHolder(g)
    /\ \E outcome \in {"ok", "nolink", "nosvc"} :
         /\ link' = IF outcome = "nolink" THEN link ELSE [link EXCEPT ![device] = "up"]
         /\ btDevice' = IF outcome = "ok" THEN [btDevice EXCEPT ![device] = TRUE]
                                          ELSE btDevice
         /\ IF connectOk(outcome)
            THEN /\ connected' = TRUE
                 /\ reconnecting' = FALSE
                 /\ lpc' = [lpc EXCEPT ![g] = "free"]
            ELSE /\ UNCHANGED <<connected, reconnecting>>
                 /\ lpc' = [lpc EXCEPT ![g] = "attempt"]
    /\ mu' = NoOne
    /\ UNCHANGED <<device, nextDevice, cpc, cdev, cret, cerr, wlog, gifVars, imgVars, devcVars, cmdVars, shutVars, snkVars, brdVars>>

(***************************************************************************)
(* SendImage (graffiti_test.go:137-169) over WriteData (part_017:216-231). *)
(***************************************************************************)
\* payload lengths of the SendImage calls of the model
ImageLens ==
    {0, 1, imageChunkSize - 1, imageChunkSize, imageChunkSize + 1}
        \cup {k * imageChunkSize : k \in 2..MaxChunks}

\* mutant: every chunk is flagged as the first one
imageHeader_AlwaysFirst(index, chunk, data) ==
    PutUint16(Len(chunk) + headerSize) \o <<0, 0>> \o <<0>>
        \o PutUint32(ToUint32(Len(data)))

\* graffiti_test.go:146-159: the 9-byte header of chunk number index
imageHeader(index, chunk, data) ==
    PutUint16(Len(chunk) + headerSize) \o <<0, 0>>
        \o <<IF index > 0 THEN 2 ELSE 0>>
        \o PutUint32(ToUint32(Len(data)))

\* graffiti_test.go:143-161: packet.Bytes() of chunk number index
imagePacket(index, chunk, data) == imageHeader(index, chunk, data) \o chunk

\* what d.WritePacket may return
WriteErrors == {"nil", "write failed: Not Connected", "device disconnected"}

WrittenPacket(pkt, err) == [data |-> pkt, ok |-> err = "nil", err |-> err]

\* mutant: the error of WritePacket is dropped and the loop goes on
writeFailed_Ignored(err) == FALSE

\* part_017:223-225 and graffiti_test.go:163-165: "if err != nil { return err }"
writeFailed(err) == err # "nil"

\* mutant: WriteData waits for and consumes a reply after each packet
queueAfterWrite_AckRead(made, chan) == ReadResponse(made, chan).chan

\* part_017:222-228: WriteData calls WritePacket only; d.responseChan is
\* neither received from nor drained
queueAfterWrite(made, chan) == chan

\* graffiti_test.go:141: chunking; an empty image sends nothing
SendImageStart ==
    /\ ipc = "call"
    /\ chunks' = chunkBuffer(imageData, imageChunkSize)
    /\ ici' = 0
    /\ icursor' = 0
    /\ IF Len(chunks') = 0
       THEN ipc' = "done" /\ imgResult' = "nil"
       ELSE ipc' = "write" /\ imgResult' = imgResult
    /\ UNCHANGED <<imageData, written, gifVars, srvVars, devcVars, cmdVars, shutVars, snkVars, brdVars>>

\* part_017:222-228: one WritePacket of WriteData for the packet of chunk ici;
\* graffiti_test.go:163-168: an error is returned at once, the last chunk ends
\* the call
SendImageWrite ==
    /\ ipc = "write"
    /\ LET packet == imagePacket(ici, chunks[ici + 1], imageData)
           remaining == Len(packet) - icursor
           chunkLen == min(maxMTU, remaining)
       IN  \E err \in WriteErrors :
             /\ written' = Append(written,
                     WrittenPacket(SubSeq(packet, icursor + 1, icursor + chunkLen), err))
             /\ IF writeFailed(err)
                THEN ipc' = "done" /\ imgResult' = err
                     /\ UNCHANGED <<ici, icursor>>
                ELSE IF remaining - chunkLen > 0
                THEN ipc' = "write" /\ imgResult' = imgResult
                     /\ icursor' = icursor + chunkLen /\ ici' = ici
                ELSE IF ici + 1 < Len(chunks)
                THEN ipc' = "write" /\ imgResult' = imgResult
                     /\ icursor' = 0 /\ ici' = ici + 1
                ELSE ipc' = "done" /\ imgResult' = "nil"
                     /\ UNCHANGED <<ici, icursor>>
    /\ responseChan' = queueAfterWrite(chanMade, responseChan)
    /\ UNCHANGED <<imageData, chunks, chanMade, gifData, crc, ci, pi, gpc, gifResult,
                   ops, devVars, srvVars, devcVars, cmdVars, shutVars, snkVars, brdVars>>

\* the device sends a notification while SendImage runs (part_017:137-146)
ImageNotify ==
    /\ chanMade
    /\ ipc # "done"
    /\ \E data \in DeviceReplies :
         responseChan' = notifyCallback(responseChan, data)
    /\ chanOld' = notifyCallback(chanOld, FALSE)
    /\ UNCHANGED <<chanMade, gifData, crc, ci, pi, gpc, gifResult, ops,
                   pending, sent, srvVars, imgVars, devcVars, cmdVars, shutVars, snkVars, brdVars>>

ImgIdle ==
    /\ imageData = << >>
    /\ chunks = << >>
    /\ ici = 0
    /\ icursor = 0
    /\ ipc = "done"
    /\ imgResult = "none"
    /\ written = << >>

(***************************************************************************)
(* protocol.Device: Connect (part_017:49-152) and Disconnect (155-160).    *)
(* Strings the code inspects are sequences of characters.                  *)
(***************************************************************************)
\* part_017:28
DeviceNamePrefix == <<"I", "D", "M", "-">>

\* strings.HasPrefix
HasPrefix(str, prefix) ==
    /\ Len(str) >= Len(prefix)
    /\ SubSeq(str, 1, Len(prefix)) = prefix

\* strings.EqualFold
EqualFold(a, b) == ToLower(a) = ToLower(b)

\* the zero bluetooth.ScanResult: its Address.String() is ""
NoScanResult == [name |-> << >>, addr |-> << >>, rssi |-> 0]

\* what the scan can hear: two displays, a device with another name, a
\* device that advertises no name
ScanResults ==
    { [name |-> <<"I", "D", "M", "-", "B">>, addr |-> <<"A", "A", ":", "0", "2">>, rssi |-> -80],
      [name |-> <<"I", "D", "M", "-", "A">>, addr |-> <<"A", "A", ":", "0", "1">>, rssi |-> -40],
      [name |-> <<"I", "D", "X", "-", "A">>, addr |-> <<"B", "B", ":", "0", "3">>, rssi |-> -30],
      [name |-> << >>,                     addr |-> <<"C", "C", ":", "0", "4">>, rssi |-> -60] }

RECURSIVE SeqsUpTo(_, _)
SeqsUpTo(S, n) ==
    IF n = 0 THEN { << >> }
    ELSE LET shorter == SeqsUpTo(S, n - 1)
         IN  shorter \cup { Append(q, x) : q \in shorter, x \in S }

\* targets of the Connect calls of the model: none, or an address typed in
\* lower case
TargetAddrs == { << >>, <<"a", "a", ":", "0", "1">> }

\* part_017:66-79: does the callback select this result?
scanMatch(target, result) ==
    IF target # << >>
    THEN EqualFold(result.addr, target)
    ELSE HasPrefix(result.name, DeviceNamePrefix)

\* mutant: the callback does not stop the scan
StopScan_Ignored(state) == state

\* adapter.StopScan(): the scan ends, btAdapter.Scan returns
StopScan(state) == "stopped"

\* part_017:50-55: btAdapter.Enable; "already enabled" is not an error
ConnectCall ==
    /\ dpc = "idle"
    /\ \E enable \in {"ok", "already enabled", "adapter error"} :
         IF enable = "adapter error"
         THEN dpc' = "failed" /\ derr' = enable
         ELSE dpc' = "scan" /\ derr' = derr
    /\ UNCHANGED <<targetAddr, adverts, si, scanResult, dlink, dbt, dnotif, dsvc, dchars, dwc, drc,
                   dret, gifVars, srvVars, imgVars, cmdVars, shutVars, snkVars, brdVars>>

\* part_017:62-80: the scan callback runs for the next advertisement
ScanCallback ==
    /\ dpc = "scan"
    /\ si < Len(adverts)
    /\ si' = si + 1
    /\ LET result == adverts[si + 1]
       IN  IF scanMatch(targetAddr, result)
           THEN scanResult' = result /\ dpc' = StopScan(dpc)
           ELSE UNCHANGED <<scanResult, dpc>>
    /\ UNCHANGED <<targetAddr, adverts, derr, dlink, dbt, dnotif, dsvc, dchars, dwc, drc,
                   dret, gifVars, srvVars, imgVars, cmdVars, shutVars, snkVars, brdVars>>

\* part_017:81-83: btAdapter.Scan fails to start
ScanError ==
    /\ dpc = "scan"
    /\ si = 0
    /\ dpc' = "failed"
    /\ derr' = "scan error"
    /\ UNCHANGED <<targetAddr, adverts, si, scanResult, dlink, dbt, dnotif, dsvc, dchars, dwc, drc,
                   dret, gifVars, srvVars, imgVars, cmdVars, shutVars, snkVars, brdVars>>

\* part_017:85-100: Scan has returned; the selection is tested and the link
\* is made (btAdapter.Connect)
ScanReturn ==
    /\ dpc = "stopped"
    /\ IF scanResult.addr = << >>
       THEN /\ dpc' = "failed"
            /\ derr' = IF targetAddr # << >> THEN "device with address not found"
                                            ELSE "no iDotMatrix device found"
            /\ UNCHANGED dlink
       ELSE \E ok \in BOOLEAN :
              IF ok THEN dpc' = "linked" /\ dlink' = "up" /\ derr' = derr
                    ELSE dpc' = "failed" /\ derr' = "connect error" /\ dlink' = dlink
    /\ UNCHANGED <<targetAddr, adverts, si, scanResult, dbt, dnotif, dsvc, dchars, dwc, drc,
                   dret, gifVars, srvVars, imgVars, cmdVars, shutVars, snkVars, brdVars>>

\* part_017:13-23
serviceId == "00fa"
writeCharacteristicId == "fa02"
readCharacteristicId == "fa03"

\* what DiscoverServices and DiscoverCharacteristics may hand to Connect: an
\* error, or a list of 16-bit IDs ("128bit" stands for a UUID that is not
\* 16-bit)
Discovered(err, ids) == [called |-> TRUE, err |-> err, ids |-> ids]
NoDiscovery == [called |-> FALSE, err |-> FALSE, ids |-> << >>]
ServiceResults ==
    {Discovered(TRUE, << >>)}
        \cup {Discovered(FALSE, ids) :
                ids \in {<< >>, <<"00fb">>, <<"128bit">>, <<serviceId>>}}
CharIds == {writeCharacteristicId, readCharacteristicId, "fa04", "128bit"}
MaxChars == 3
CharResults ==
    {Discovered(TRUE, << >>)}
        \cup {Discovered(FALSE, ids) :
                ids \in UNION {[1..n -> CharIds] : n \in 0..MaxChars}}

\* part_017:119-131: the loop over the characteristics; the result is the
\* error, or "nil", with the handles that were assigned on the way
RECURSIVE assignChars(_, _, _, _)
assignChars(chars, i, w, r) ==
    IF i > Len(chars) THEN [err |-> "nil", w |-> w, r |-> r]
    ELSE IF chars[i] = "128bit" THEN [err |-> "invalid char type", w |-> w, r |-> r]
    ELSE IF chars[i] = writeCharacteristicId THEN assignChars(chars, i + 1, TRUE, r)
    ELSE IF chars[i] = readCharacteristicId THEN assignChars(chars, i + 1, w, TRUE)
    ELSE [err |-> "invalid characteristic", w |-> w, r |-> r]

\* part_017:97-131: the error discovery ends with, or "nil", and the
\* characteristic handles assigned
discover(svc, chars) ==
    LET none(err) == [err |-> err, w |-> FALSE, r |-> FALSE]
    IN  IF svc.err THEN none("service discover failed")
        ELSE IF Len(svc.ids) = 0 THEN none("device doesn't support service")
        ELSE IF svc.ids[1] = "128bit" \/ svc.ids[1] # serviceId
             THEN none("invalid service id")
        ELSE IF chars.err THEN none("characteristic discover failed")
        ELSE IF Len(chars.ids) # 2 THEN none("unexpected number of characteristics")
        ELSE assignChars(chars.ids, 1, FALSE, FALSE)

\* part_017:97-151: service and characteristic discovery, d.btDevice = btd,
\* EnableNotifications (its error is only printed). No branch closes btd.
\* EnableNotifications on a read characteristic that was never assigned is a
\* call on the zero value: the BLE stack returns an error or the call panics.
Discover ==
    /\ dpc = "linked"
    /\ \E svc \in ServiceResults, chars \in CharResults :
         LET got == discover(svc, chars)
             reached == ~svc.err /\ svc.ids = <<serviceId>>
         IN  /\ dsvc' = svc
             /\ dchars' = IF reached THEN chars ELSE NoDiscovery
             /\ dwc' = got.w
             /\ drc' = got.r
             /\ IF got.err = "nil"
                THEN /\ dbt' = TRUE
                     /\ derr' = "nil"
                     /\ IF got.r
                        THEN \E enabled \in BOOLEAN : dnotif' = enabled /\ dpc' = "ready"
                        ELSE dnotif' = FALSE /\ dpc' \in {"ready", "panic"}
                ELSE /\ dpc' = "failed"
                     /\ derr' = got.err
                     /\ UNCHANGED <<dbt, dnotif>>
    /\ UNCHANGED <<targetAddr, adverts, si, scanResult, dlink,
                   dret, gifVars, srvVars, imgVars, cmdVars, shutVars, snkVars, brdVars>>

\* part_017:155-160: Disconnect, called while no Connect is running.
\* d.btDevice.Disconnect() is the BLE stack's call: on an open link it closes
\* it or fails; on a link that is already closed it returns nil or an error.
DisconnectCall ==
    /\ dpc \in {"idle", "ready", "failed"}
    /\ Len(dret) < MaxDisconnects
    /\ IF ~dbt
       THEN dret' = Append(dret, "nil") /\ dlink' = dlink
       ELSE \E stack \in {"nil", "error"} :
              /\ dret' = Append(dret, stack)
              /\ dlink' = IF stack = "nil" THEN "down" ELSE dlink
    /\ UNCHANGED <<targetAddr, adverts, si, scanResult, dpc, derr, dbt, dnotif, dsvc, dchars, dwc, drc,
                   gifVars, srvVars, imgVars, cmdVars, shutVars, snkVars, brdVars>>

DevIdle ==
    /\ targetAddr = << >>
    /\ adverts = << >>
    /\ si = 0
    /\ scanResult = NoScanResult
    /\ dpc = "unused"
    /\ derr = "none"
    /\ dlink = "none"
    /\ dbt = FALSE
    /\ dnotif = FALSE
    /\ dsvc = NoDiscovery
    /\ dchars = NoDiscovery
    /\ dwc = FALSE
    /\ drc = FALSE
    /\ dret = << >>

\* A new Device (NewDevice, part_017:42-44) and what its scan will hear.
InitDevice ==
    /\ targetAddr \in TargetAddrs
    /\ adverts \in SeqsUpTo(ScanResults, MaxAdverts)
    /\ si = 0
    /\ scanResult = NoScanResult
    /\ dpc = "idle"
    /\ derr = "none"
    /\ dlink = "none"
    /\ dbt = FALSE
    /\ dnotif = FALSE
    /\ dsvc = NoDiscovery
    /\ dchars = NoDiscovery
    /\ dwc = FALSE
    /\ drc = FALSE
    /\ dret = << >>

ConnectStep ==
    \/ ConnectCall
    \/ ScanCallback
    \/ ScanError
    \/ ScanReturn
    \/ Discover

(***************************************************************************)
(* Commands of one packet: SetPixels (graffiti.go:31-63), SetClockMode     *)
(* (part_016:15-24), SetTime (part_016:27-29) as handleClock and the clock *)
(* command call it.                                                        *)
(***************************************************************************)
\* byte(v), uint8(v)
Byte(v) == v % 256

\* b | mask for a mask of one bit
OrBit(b, mask) == IF (b \div mask) % 2 = 1 THEN b ELSE b + mask

\* part_017:219-229: the packets WriteData hands to WritePacket
RECURSIVE writeDataLoop(_, _, _)
writeDataLoop(data, wcursor, remaining) ==
    IF remaining > 0
    THEN LET chunkLen == min(maxMTU, remaining)
         IN  << SubSeq(data, wcursor + 1, wcursor + chunkLen) >>
                 \o writeDataLoop(data, wcursor + chunkLen, remaining - chunkLen)
    ELSE << >>

WriteData(data) == writeDataLoop(data, 0, Len(data))

\* mutant: all the points are sent
truncatePoints_Never(points) == points

\* graffiti.go:35-37
truncatePoints(points) ==
    IF Len(points) > 255 THEN SubSeq(points, 1, 255) ELSE points

\* graffiti.go:32-62: the packets SetPixels writes
SetPixels(color, points) ==
    IF Len(points) = 0 THEN << >>
    ELSE LET pts == truncatePoints(points)
             size == 8 + 2 * Len(pts)
             sizeLSB == Byte(size % 256)
             sizeMSB == Byte((size \div 256) % 256)
         IN  << <<sizeLSB, sizeMSB, 5, 1, 0, color[1], color[2], color[3]>>
                  \o [k \in 1..(2 * Len(pts)) |->
                        IF k % 2 = 1 THEN Byte(pts[(k + 1) \div 2].X)
                                     ELSE Byte(pts[k \div 2].Y)] >>

\* part_016:16-23: the packets SetClockMode writes
SetClockMode(style, visibleDate, hour24, color) ==
    LET sb0 == Byte(style)
        sb1 == IF visibleDate THEN OrBit(sb0, 128) ELSE sb0
        sb == IF hour24 THEN OrBit(sb1, 64) ELSE sb1
    IN  WriteData(<<8, 0, 6, 1, sb, color[1], color[2], color[3]>>)

\* part_016:28: the packets SetTime writes
SetTime(year, month, day, weekDay, hour, minute, second) ==
    WriteData(<<11, 0, 1, 128, Byte(year), Byte(month), Byte(day), Byte(weekDay),
                Byte(hour), Byte(minute), Byte(second)>>)

\* time.Time.Weekday(): Sunday = 0 ... Saturday = 6
Weekday(t) ==
    LET off == <<0, 3, 2, 5, 0, 3, 5, 1, 4, 6, 2, 4>>
        y == IF t.month < 3 THEN t.year - 1 ELSE t.year
    IN  (y + (y \div 4) - (y \div 100) + (y \div 400) + off[t.month] + t.day) % 7

\* part_015:417-418 and emoji_slideshow.go:163-164: SetTime as the clock
\* command and the HTTP handler call it for the current time t
handleClockSetTime(t) ==
    SetTime(t.year, t.month, t.day, Weekday(t) + 1, t.hour, t.minute, t.second)

\* inputs of the calls of the model
Points(n) == [i \in 1..n |-> [X |-> (i - 1) % 64, Y |-> ((i - 1) \div 64) % 64]]
PointCounts == {0, 1, 2, 254, 255, 256, 300}
Colors == { <<255, 0, 0>>, <<16, 32, 255>> }
Styles == {-1, 0, 1, 4, 63, 64, 65, 128, 255, 257}
Dates ==
    { [year |-> 2026, month |-> 11, day |-> d] : d \in 1..7 }
        \cup { [year |-> 1999, month |-> 12, day |-> 31],
               [year |-> 2000, month |-> 2, day |-> 29],
               [year |-> 2024, month |-> 1, day |-> 1] }
Clocks ==
    { [hour |-> 0, minute |-> 0, second |-> 0],
      [hour |-> 12, minute |-> 34, second |-> 56],
      [hour |-> 23, minute |-> 59, second |-> 59] }
NoTime == [year |-> 0, month |-> 1, day |-> 1, hour |-> 0, minute |-> 0, second |-> 0]

Call(fn, color, n, style, visibleDate, hour24, t) ==
    [fn |-> fn, color |-> color, points |-> Points(n), style |-> style,
     visibleDate |-> visibleDate, hour24 |-> hour24, t |-> t]

Calls ==
    { Call("SetPixels", c, n, 0, FALSE, FALSE, NoTime) : c \in Colors, n \in PointCounts }
      \cup { Call("SetClockMode", c, 0, st, vd, h, NoTime) :
                c \in Colors, st \in Styles, vd \in BOOLEAN, h \in BOOLEAN }
      \cup { Call("SetTime", <<0, 0, 0>>, 0, 0, FALSE, FALSE,
                  [year |-> d.year, month |-> d.month, day |-> d.day,
                   hour |-> k.hour, minute |-> k.minute, second |-> k.second]) :
                d \in Dates, k \in Clocks }

SetPixelsCall ==
    /\ cmdpc = "call"
    /\ cmd.fn = "SetPixels"
    /\ cmdOut' = SetPixels(cmd.color, cmd.points)
    /\ cmdRet' = "nil"
    /\ cmdpc' = "done"
    /\ UNCHANGED <<cmd, gifVars, srvVars, imgVars, devcVars, shutVars, snkVars, brdVars>>

SetClockModeCall ==
    /\ cmdpc = "call"
    /\ cmd.fn = "SetClockMode"
    /\ cmdOut' = SetClockMode(cmd.style, cmd.visibleDate, cmd.hour24, cmd.color)
    /\ cmdRet' = "nil"
    /\ cmdpc' = "done"
    /\ UNCHANGED <<cmd, gifVars, srvVars, imgVars, devcVars, shutVars, snkVars, brdVars>>

SetTimeCall ==
    /\ cmdpc = "call"
    /\ cmd.fn = "SetTime"
    /\ cmdOut' = handleClockSetTime(cmd.t)
    /\ cmdRet' = "nil"
    /\ cmdpc' = "done"
    /\ UNCHANGED <<cmd, gifVars, srvVars, imgVars, devcVars, shutVars, snkVars, brdVars>>

CmdIdle ==
    /\ cmd = Call("none", <<0, 0, 0>>, 0, 0, FALSE, FALSE, NoTime)
    /\ cmdpc = "done"
    /\ cmdOut = << >>
    /\ cmdRet = "none"

(***************************************************************************)
(* server.SnakeManager (snake.go) and the goroutine of a snake game        *)
(* (part_011:429-474), started by handleSnakeStart (part_015:633-668).     *)
(***************************************************************************)
MaxGames == 2
Games == 1..MaxGames
Keys == {"start", "quit"}

\* snake.go:45: m.session != nil && m.session.game.IsRunning()
sessionActive(sess, running) == sess # 0 /\ running[sess]

\* what is known of the session a game is created with
HandedSession ==
    [dev |-> device,
     connected |-> connected,
     established |-> device # 0 /\ btDevice[device] /\ link[device] = "up"]
NoSession == [dev |-> 0, connected |-> FALSE, established |-> FALSE]

\* part_015:640-651 with snake.go:40-76: the handler reads s.device, taking no
\* lock and not testing s.connected, and StartSession returns the ID of the
\* active session or creates a game on that device and starts its goroutine
handleSnakeStart ==
    /\ httpAccepts(shutdown)
    /\ smu = "free"
    /\ IF sessionActive(session, grun)
       THEN /\ sret' = session
            /\ UNCHANGED <<session, nextGame, grun, gpos, gclosed, gkey, gdev>>
       ELSE /\ nextGame < MaxGames
            /\ LET g == nextGame + 1
               IN  /\ gclosed' = IF session # 0 THEN [gclosed EXCEPT ![session] = TRUE]
                                               ELSE gclosed
                   /\ session' = g
                   /\ nextGame' = g
                   /\ grun' = [grun EXCEPT ![g] = TRUE]
                   /\ gpos' = [gpos EXCEPT ![g] = "loop"]
                   /\ gdev' = [gdev EXCEPT ![g] = HandedSession]
                   /\ sret' = g
            /\ UNCHANGED gkey
    /\ UNCHANGED <<smu, gifVars, srvVars, imgVars, devcVars, cmdVars, shutVars, brdVars>>

\* snake.go:99-109 with part_011:101-125: a key for the running game; the
\* channel drops keys it has no room for
SendInput ==
    /\ smu = "free"
    /\ session # 0
    /\ grun[session]
    /\ ~gclosed[session]
    /\ gkey[session] = "none"
    /\ \E key \in Keys : gkey' = [gkey EXCEPT ![session] = key]
    /\ UNCHANGED <<session, smu, nextGame, grun, gpos, gclosed, gdev, sret,
                   gifVars, srvVars, imgVars, devcVars, cmdVars, shutVars, brdVars>>

\* snake.go:80-92: lock; without a session return, else Stop the game, close
\* its input and wait for its goroutine
StopSessionBegin ==
    /\ smu = "free"
    /\ IF session = 0
       THEN /\ sret' = 0
            /\ UNCHANGED <<smu, grun, gclosed>>
       ELSE /\ grun' = [grun EXCEPT ![session] = FALSE]
            /\ gclosed' = [gclosed EXCEPT ![session] = TRUE]
            /\ smu' = "stopping"
            /\ UNCHANGED sret
    /\ UNCHANGED <<session, nextGame, gpos, gkey, gdev,
                   gifVars, srvVars, imgVars, devcVars, cmdVars, shutVars, brdVars>>

\* snake.go:92-95: done is closed; m.session = nil; unlock
StopSessionEnd ==
    /\ smu = "stopping"
    /\ gpos[session] = "finished"
    /\ session' = 0
    /\ smu' = "free"
    /\ sret' = 0
    /\ UNCHANGED <<nextGame, grun, gpos, gclosed, gkey, gdev,
                   gifVars, srvVars, imgVars, devcVars, cmdVars, shutVars, brdVars>>

\* part_011:430-435 (and 471-473): top of the loop of runWithInput; the cover
\* image is shown, and a failure returns at once and leaves g.running set
gameLoop(g) ==
    /\ gpos[g] = "loop"
    /\ IF ~grun[g]
       THEN gpos' = [gpos EXCEPT ![g] = "finished"]
       ELSE \E shown \in BOOLEAN :
              gpos' = [gpos EXCEPT ![g] = IF shown THEN "cover" ELSE "finished"]
    /\ UNCHANGED <<session, smu, nextGame, grun, gclosed, gkey, gdev, sret,
                   gifVars, srvVars, imgVars, devcVars, cmdVars, shutVars, brdVars>>

\* part_011:436-443 and 465-468: waitForKey returns a key, or 'q' when the
\* input was closed; 'q' leaves the loop (471: g.running = false)
gameKey(g) ==
    /\ gpos[g] \in {"cover", "gameover"}
    /\ gkey[g] # "none" \/ gclosed[g]
    /\ LET key == IF gkey[g] # "none" THEN gkey[g] ELSE "quit"
       IN  IF key = "quit"
           THEN /\ grun' = [grun EXCEPT ![g] = FALSE]
                /\ gpos' = [gpos EXCEPT ![g] = "finished"]
           ELSE /\ gpos' = [gpos EXCEPT ![g] = IF gpos[g] = "cover" THEN "playing"
                                                                   ELSE "loop"]
                /\ UNCHANGED grun
    /\ gkey' = [gkey EXCEPT ![g] = "none"]
    /\ UNCHANGED <<session, smu, nextGame, gclosed, gdev, sret,
                   gifVars, srvVars, imgVars, devcVars, cmdVars, shutVars, brdVars>>

\* part_011:376-397 with 292-322: one tick of the level. Without g.running
\* the loops end (456, 471); a 'q' clears g.running and the tick goes on to
\* move the snake and draw; the game may be over (461-464)
gameTick(g) ==
    /\ gpos[g] = "playing"
    /\ IF ~grun[g]
       THEN /\ gpos' = [gpos EXCEPT ![g] = "finished"]
            /\ UNCHANGED <<grun, gkey>>
       ELSE IF gkey[g] = "quit"
       THEN /\ grun' = [grun EXCEPT ![g] = FALSE]
            /\ gpos' = [gpos EXCEPT ![g] = "drawing"]
            /\ gkey' = [gkey EXCEPT ![g] = "none"]
       ELSE /\ gkey' = [gkey EXCEPT ![g] = "none"]
            /\ UNCHANGED grun
            /\ \E over \in BOOLEAN, shown \in BOOLEAN :
                 gpos' = [gpos EXCEPT ![g] =
                            IF ~over THEN "playing"
                            ELSE IF shown THEN "gameover" ELSE "finished"]
    /\ UNCHANGED <<session, smu, nextGame, gclosed, gdev, sret,
                   gifVars, srvVars, imgVars, devcVars, cmdVars, shutVars, brdVars>>

\* part_011:381-397, 399-401, 456-458, 471-473: the tick that read 'q' draws
\* the move, sleeps, and the goroutine returns (snake.go:71: close(done))
gameDrawAndReturn(g) ==
    /\ gpos[g] = "drawing"
    /\ gpos' = [gpos EXCEPT ![g] = "finished"]
    /\ UNCHANGED <<session, smu, nextGame, grun, gclosed, gkey, gdev, sret,
                   gifVars, srvVars, imgVars, devcVars, cmdVars, shutVars, brdVars>>

\* snake.go:27-29: NewSnakeManager
SnkIdle ==
    /\ session = 0
    /\ smu = "free"
    /\ nextGame = 0
    /\ grun = [g \in Games |-> FALSE]
    /\ gpos = [g \in Games |-> "none"]
    /\ gclosed = [g \in Games |-> FALSE]
    /\ gkey = [g \in Games |-> "none"]
    /\ gdev = [g \in Games |-> NoSession]
    /\ sret = 0

(***************************************************************************)
(* tetris.Board.ClearLines (part_010:62-104) on a board of                 *)
(* MaxBoardHeight rows and MaxBoardWidth columns.                          *)
(***************************************************************************)
MaxBoardHeight == 4
MaxBoardWidth == 2
BoardRows == 0..(MaxBoardHeight - 1)
BoardCols == 0..(MaxBoardWidth - 1)

\* part_010:12-15: Cell{} and an occupied cell
EmptyCell == [Occupied |-> FALSE, Color |-> 0]
LockedCell(color) == [Occupied |-> TRUE, Color |-> color]

\* the boards of the model: any cells occupied, coloured by their row
Boards ==
    {[y \in BoardRows |->
        [x \in BoardCols |-> IF x \in occ[y] THEN LockedCell(y + 1) ELSE EmptyCell]] :
     occ \in [BoardRows -> SUBSET BoardCols]}

\* part_010:83-90
isLineComplete(cells, y) == \A x \in BoardCols : cells[y][x].Occupied

\* part_010:93-104
clearLine(cells, clearedY) ==
    [y \in BoardRows |->
        IF y = 0 THEN [x \in BoardCols |-> EmptyCell]
        ELSE IF y <= clearedY THEN cells[y - 1]
        ELSE cells[y]]

\* mutant: the loop moves up after clearing a row
rowAfterClear_Up(y) == y - 1

\* part_010:70-73: after a row was cleared the same row is tested again
rowAfterClear(y) == y

\* part_010:65-68
ClearLinesCall ==
    /\ bpc = "call"
    /\ linesCleared' = 0
    /\ by' = MaxBoardHeight - 1
    /\ bpc' = "loop"
    /\ UNCHANGED <<Cells, cells0, gifVars, srvVars, imgVars, devcVars, cmdVars,
                   shutVars, snkVars>>

\* part_010:69-79: one turn of the loop, or the return
ClearLinesStep ==
    /\ bpc = "loop"
    /\ IF by >= 0
       THEN IF isLineComplete(Cells, by)
            THEN /\ Cells' = clearLine(Cells, by)
                 /\ linesCleared' = linesCleared + 1
                 /\ by' = rowAfterClear(by)
                 /\ UNCHANGED bpc
            ELSE /\ by' = by - 1
                 /\ UNCHANGED <<Cells, linesCleared, bpc>>
       ELSE /\ bpc' = "done"
            /\ UNCHANGED <<Cells, linesCleared, by>>
    /\ UNCHANGED <<cells0, gifVars, srvVars, imgVars, devcVars, cmdVars,
                   shutVars, snkVars>>

\* part_010:23-25: NewBoard
BrdIdle ==
    /\ Cells = [y \in BoardRows |-> [x \in BoardCols |-> EmptyCell]]
    /\ cells0 = Cells
    /\ by = 0
    /\ linesCleared = 0
    /\ bpc = "done"

(***************************************************************************)
(* The specifications.                                                     *)
(***************************************************************************)
GifIdle ==
    /\ responseChan = << >>
    /\ chanMade = TRUE
    /\ gifData = << >>
    /\ crc = ToUint32(0)
    /\ ci = 0
    /\ pi = 0
    /\ gpc = "done"
    /\ gifResult = "none"
    /\ ops = << >>
    /\ chanOld = << >>
    /\ pending = "none"
    /\ sent = << >>

\* server.go:62-66: the signal arrives and the shutdown goroutine wakes up
shutdownSignal ==
    /\ shutdown = "no"
    /\ shutdown' = "requested"
    /\ UNCHANGED <<refused, gifVars, srvVars, imgVars, devcVars, cmdVars, snkVars, brdVars>>

\* server.go:73: httpServer.Shutdown closes the listeners
httpShutdownClose ==
    /\ shutdown = "requested"
    /\ shutdown' = "closing"
    /\ UNCHANGED <<refused, gifVars, srvVars, imgVars, devcVars, cmdVars, snkVars, brdVars>>

\* a request that arrives after the listeners were closed reaches no handler
httpRefuse ==
    /\ ~httpAccepts(shutdown)
    /\ ~refused
    /\ refused' = TRUE
    /\ UNCHANGED <<shutdown, gifVars, srvVars, imgVars, devcVars, cmdVars, snkVars, brdVars>>

\* server.go:73: httpServer.Shutdown(context.Background()) returns once every
\* handler in flight has returned
httpShutdownReturn ==
    /\ shutdown = "closing"
    /\ \A c \in Callers : cpc[c] = "idle"
    /\ shutdown' = "closed"
    /\ UNCHANGED <<refused, gifVars, srvVars, imgVars, devcVars, cmdVars, snkVars, brdVars>>

\* server.go:78-86: lock, disconnect s.device when there is one, unlock
shutdownDisconnect ==
    /\ shutdown = "closed"
    /\ mu = NoOne
    /\ link' = IF device # 0 THEN Disconnect(link, btDevice, device) ELSE link
    /\ shutdown' = "done"
    /\ UNCHANGED <<mu, connected, reconnecting, device, nextDevice, btDevice,
                   cpc, cdev, cret, cerr, lpc, wlog, refused,
                   gifVars, imgVars, devcVars, cmdVars, snkVars, brdVars>>

ShutIdle ==
    /\ shutdown = "no"
    /\ refused = FALSE

SrvInit ==
    /\ mu = NoOne
    /\ connected = FALSE
    /\ reconnecting = FALSE
    /\ device = 0
    /\ nextDevice = 0
    /\ link = [d \in Devices |-> "none"]
    /\ btDevice = [d \in Devices |-> FALSE]
    /\ cpc = [c \in Callers |-> "idle"]
    /\ cdev = [c \in Callers |-> 0]
    /\ cret = [c \in Callers |-> "none"]
    /\ cerr = [c \in Callers |-> "none"]
    /\ lpc = [g \in Loops |-> IF g = 0 THEN "start" ELSE "free"]
    /\ wlog = << >>

\* One SendGIF call on a connected Device; a notification of an earlier
\* operation may still be queued.
InitGIF ==
    /\ chanMade = TRUE
    /\ responseChan \in {<< >>, <<responseComplete>>}
    /\ gifData \in {Payload(n) : n \in PayloadLens}
    /\ crc = ToUint32(0)
    /\ ci = 0
    /\ pi = 0
    /\ gpc = "call"
    /\ gifResult = "none"
    /\ ops = << >>
    /\ chanOld = [i \in 1..Len(responseChan) |-> TRUE]
    /\ pending = "none"
    /\ sent = << >>
    /\ SrvInit
    /\ ImgIdle
    /\ DevIdle
    /\ CmdIdle
    /\ ShutIdle
    /\ SnkIdle
    /\ BrdIdle

\* One SendGIF call against a device that replies once per chunk; a
\* notification of an earlier operation may be queued or still in flight.
InitGIFDevice ==
    /\ chanMade = TRUE
    /\ responseChan \in {<< >>, <<responseComplete>>}
    /\ gifData \in {Payload(n) : n \in PayloadLens}
    /\ crc = ToUint32(0)
    /\ ci = 0
    /\ pi = 0
    /\ gpc = "call"
    /\ gifResult = "none"
    /\ ops = << >>
    /\ chanOld = [i \in 1..Len(responseChan) |-> TRUE]
    /\ pending \in {"none", "inflight"}
    /\ sent = << >>
    /\ SrvInit
    /\ ImgIdle
    /\ DevIdle
    /\ CmdIdle
    /\ ShutIdle
    /\ SnkIdle
    /\ BrdIdle

NextGIFDevice ==
    \/ SendGIFStart
    \/ SendGIFWrite
    \/ SendGIFRead
    \/ DeviceReply
    \/ StaleNotify

SpecGIFDevice == InitGIFDevice /\ [][NextGIFDevice]_vars

NextGIF ==
    \/ SendGIFStart
    \/ SendGIFWrite
    \/ SendGIFRead
    \/ Notify

SpecGIF == InitGIF /\ [][NextGIF]_vars

\* One SendImage call.
InitImage ==
    /\ imageData \in {Payload(n) : n \in ImageLens}
    /\ chunks = << >>
    /\ ici = 0
    /\ icursor = 0
    /\ ipc = "call"
    /\ imgResult = "none"
    /\ written = << >>
    /\ GifIdle
    /\ SrvInit
    /\ DevIdle
    /\ CmdIdle
    /\ ShutIdle
    /\ SnkIdle
    /\ BrdIdle

NextImage ==
    \/ SendImageStart
    \/ SendImageWrite
    \/ ImageNotify

SpecImage == InitImage /\ [][NextImage]_vars

\* One Device: Connect, then Disconnect calls.
InitDeviceSpec == InitDevice /\ GifIdle /\ SrvInit /\ ImgIdle /\ CmdIdle /\ ShutIdle /\ SnkIdle /\ BrdIdle

NextDevice ==
    \/ ConnectStep
    \/ DisconnectCall

SpecDevice == InitDeviceSpec /\ [][NextDevice]_vars

\* the Connect call is scheduled fairly
FairSpecDevice == SpecDevice /\ WF_vars(ConnectStep)

\* One command call.
InitCommand ==
    /\ cmd \in Calls
    /\ cmdpc = "call"
    /\ cmdOut = << >>
    /\ cmdRet = "none"
    /\ GifIdle
    /\ SrvInit
    /\ ImgIdle
    /\ DevIdle
    /\ ShutIdle
    /\ SnkIdle
    /\ BrdIdle

NextCommand ==
    \/ SetPixelsCall
    \/ SetClockModeCall
    \/ SetTimeCall

SpecCommand == InitCommand /\ [][NextCommand]_vars

InitServer == GifIdle /\ SrvInit /\ ImgIdle /\ DevIdle /\ CmdIdle /\ ShutIdle /\ SnkIdle /\ BrdIdle

NextServer ==
    \/ \E c \in Callers : withDeviceCall(c)
    \/ \E c \in Callers : withDeviceEnter(c)
    \/ \E c \in Callers : fnWritePacket(c)
    \/ \E c \in Callers : fnReturn(c)
    \/ \E c \in Callers : withDeviceLost(c)
    \/ IsConnected
    \/ connectInBackgroundStart
    \/ \E g \in Loops : reconnectStart(g)
    \/ \E g \in Loops : connectBegin(g)
    \/ \E g \in Loops : connectEnd(g)

SpecServer == InitServer /\ [][NextServer]_vars

\* The connection manager with the shutdown goroutine of Start.
NextShutdown ==
    \/ NextServer
    \/ shutdownSignal
    \/ httpShutdownClose
    \/ httpRefuse
    \/ httpShutdownReturn
    \/ shutdownDisconnect

SpecShutdown == InitServer /\ [][NextShutdown]_vars

\* The connection manager with the handler that starts a snake game.
NextSnakeStart ==
    \/ NextServer
    \/ handleSnakeStart

SpecSnakeStart == InitServer /\ [][NextSnakeStart]_vars

\* The snake manager, its handlers and the goroutines of the games.
NextSnake ==
    \/ handleSnakeStart
    \/ SendInput
    \/ StopSessionBegin
    \/ StopSessionEnd
    \/ \E g \in Games : gameLoop(g)
    \/ \E g \in Games : gameKey(g)
    \/ \E g \in Games : gameTick(g)
    \/ \E g \in Games : gameDrawAndReturn(g)

\* the manager after connectInBackground has connected the first session
SrvConnected ==
    /\ mu = NoOne
    /\ connected = TRUE
    /\ reconnecting = FALSE
    /\ device = 1
    /\ nextDevice = 1
    /\ link = [d \in Devices |-> IF d = 1 THEN "up" ELSE "none"]
    /\ btDevice = [d \in Devices |-> d = 1]
    /\ cpc = [c \in Callers |-> "idle"]
    /\ cdev = [c \in Callers |-> 0]
    /\ cret = [c \in Callers |-> "none"]
    /\ cerr = [c \in Callers |-> "none"]
    /\ lpc = [g \in Loops |-> "free"]
    /\ wlog = << >>

\* One ClearLines call on a board.
InitBoard ==
    /\ Cells \in Boards
    /\ cells0 = Cells
    /\ by = 0
    /\ linesCleared = 0
    /\ bpc = "call"
    /\ GifIdle
    /\ SrvInit
    /\ ImgIdle
    /\ DevIdle
    /\ CmdIdle
    /\ ShutIdle
    /\ SnkIdle

NextBoard ==
    \/ ClearLinesCall
    \/ ClearLinesStep

SpecBoard == InitBoard /\ [][NextBoard]_vars

InitSnake ==
    /\ GifIdle
    /\ SrvConnected
    /\ ImgIdle
    /\ DevIdle
    /\ CmdIdle
    /\ ShutIdle
    /\ SnkIdle
    /\ BrdIdle

SpecSnake == InitSnake /\ [][NextSnake]_vars

(***************************************************************************)
(* Vocabulary of the SendGIF claims, read off the history ops.             *)
(***************************************************************************)
IsWrite(k) == ops[k].op = "write"
IsRead(k) == ops[k].op = "read"
OpIdx == 1..Len(ops)
ReadIdx == {k \in OpIdx : IsRead(k)}
WriteIdx == {k \in OpIdx : IsWrite(k)}

\* number of 4096-byte chunks the payload splits into
NumChunks == (Len(gifData) + 4095) \div 4096

\* chunk i (0-based) of the payload and the number of its link fragments
PayloadChunk(i) ==
    SubSeq(gifData, 4096 * i + 1, min(4096 * (i + 1), Len(gifData)))
FragmentCount(i) == (Len(PayloadChunk(i)) + 16 + 508) \div 509

RECURSIVE Flatten(_)
Flatten(ss) == IF Len(ss) = 0 THEN << >> ELSE Head(ss) \o Flatten(Tail(ss))

\* the packets written for chunk i, in the order they were written
WrittenFor(i) ==
    LET w == SelectSeq(ops, LAMBDA o : o.op = "write" /\ o.ci = i)
    IN  [k \in 1..Len(w) |-> w[k].data]

\* the replies read so far, in order
RepliesRead ==
    LET r == SelectSeq(ops, LAMBDA o : o.op = "read")
    IN  [k \in 1..Len(r) |-> r[k].data]

\* CRC-32/IEEE of each payload of the model, computed once
PayloadChecksum == [n \in PayloadLens |-> ChecksumIEEE(Payload(n))]

\* the 16-byte header of section 6 for chunk i
WireHeader(i) ==
    LET len == Len(PayloadChunk(i)) + 16
        tot == Len(gifData)
    IN  << len % 256, len \div 256, 1, 0, IF i = 0 THEN 0 ELSE 2,
           tot % 256, (tot \div 256) % 256, (tot \div 65536) % 256, tot \div 16777216 >>
        \o PutUint32(PayloadChecksum[tot])
        \o << 0, 0, 12 >>

StatusOf(r) == IF Len(r) >= 5 THEN r[5] ELSE -1
GoodPrefix(r) == Len(r) >= 5 /\ SubSeq(r, 1, 4) = <<5, 0, 1, 0>>
Returned == gpc = "done"
IsError(res) == res \notin {"none", "nil"}

(***************************************************************************)
(* C1: for a payload of two or more chunks, a 'complete' reply             *)
(* (05 00 01 00 03) to chunk 0 makes SendGIF return success at once: the   *)
(* only packets written are the fragments of chunk 0, and that reply is    *)
(* the only one read.                                                      *)
(***************************************************************************)
C1_CacheHit(k) ==
    /\ NumChunks >= 2
    /\ IsRead(k) /\ ops[k].ci = 0 /\ ops[k].ok /\ ops[k].data = responseComplete

C1_CacheHitShortCircuit ==
    \A k \in OpIdx :
        C1_CacheHit(k) =>
            /\ Returned /\ gifResult = "nil"
            /\ k = Len(ops)
            /\ ReadIdx = {k}
            /\ \A j \in WriteIdx : ops[j].ci = 0 /\ ops[j].ok
            /\ Len(WrittenFor(0)) = FragmentCount(0)
            /\ Flatten(WrittenFor(0)) = WireHeader(0) \o PayloadChunk(0)

C1_Witness ==
    /\ NumChunks = 3
    /\ \E k \in OpIdx : C1_CacheHit(k)
    /\ gifResult = "nil"

(***************************************************************************)
(* C2: a reply is read only after all fragments of a chunk were written,   *)
(* once per chunk; a fragment of chunk i+1 is written only after the reply *)
(* to chunk i was read with status 'continue' (01); the replies read never *)
(* outnumber the chunks sent.                                              *)
(***************************************************************************)
ChunksSent == {ops[k].ci : k \in WriteIdx}

C2_AckBeforeNextChunk ==
    /\ \A k \in ReadIdx :
          /\ \A j \in ReadIdx : ops[j].ci = ops[k].ci => j = k
          /\ k > 1 /\ IsWrite(k - 1) /\ ops[k - 1].ci = ops[k].ci
          /\ Len(WrittenFor(ops[k].ci)) = FragmentCount(ops[k].ci)
          /\ \A j \in WriteIdx : ops[j].ci = ops[k].ci => j < k /\ ops[j].ok
    /\ \A i \in 0..(NumChunks - 1) :
          (/\ Len(WrittenFor(i)) = FragmentCount(i)
           /\ \A j \in WriteIdx : ops[j].ci = i => ops[j].ok)
          => \/ gpc = "read" /\ ci = i /\ \A k \in ReadIdx : ops[k].ci # i
             \/ Cardinality({k \in ReadIdx : ops[k].ci = i}) = 1
    /\ \A k \in WriteIdx :
          ops[k].ci > 0 =>
              \E j \in ReadIdx :
                  /\ j < k
                  /\ ops[j].ci = ops[k].ci - 1
                  /\ ops[j].ok
                  /\ GoodPrefix(ops[j].data)
                  /\ StatusOf(ops[j].data) = 1
    /\ Cardinality(ReadIdx) <= Cardinality(ChunksSent)

C2_Witness ==
    /\ \E k \in WriteIdx : ops[k].ci = 2
    /\ Cardinality(ReadIdx) = 3

(***************************************************************************)
(* C3: a 'complete' reply (status 03) to a chunk that is neither the first *)
(* nor the last makes SendGIF return an error, and nothing is written or   *)
(* read after it.                                                          *)
(***************************************************************************)
C3_MiddleComplete(k) ==
    /\ IsRead(k) /\ ops[k].ok
    /\ ops[k].ci > 0 /\ ops[k].ci < NumChunks - 1
    /\ GoodPrefix(ops[k].data) /\ StatusOf(ops[k].data) = 3

C3_PrematureCompleteIsError ==
    \A k \in OpIdx :
        C3_MiddleComplete(k) =>
            /\ Returned /\ IsError(gifResult)
            /\ k = Len(ops)

C3_Witness ==
    /\ \E k \in OpIdx : C3_MiddleComplete(k) /\ ops[k].data = responseComplete
    /\ gifResult = "premature_complete"

(***************************************************************************)
(* C4: when the device answers 'continue' to every chunk but the last and  *)
(* 'complete' to the last, SendGIF returns success and the packets written *)
(* are, chunk after chunk in ascending order, the header of the chunk      *)
(* (flag 00 for chunk 0, 02 for the others) followed by the chunk, cut     *)
(* into fragments of 509 bytes in ascending offset order.                  *)
(***************************************************************************)
C4_AllAcknowledged ==
    /\ NumChunks >= 1
    /\ RepliesRead = [i \in 1..NumChunks |->
                        IF i < NumChunks THEN responseOKContinue ELSE responseComplete]
    /\ \A k \in ReadIdx : ops[k].ok

C4_ChunksInOrder ==
    C4_AllAcknowledged =>
        /\ Returned /\ gifResult = "nil"
        /\ \A k \in WriteIdx : ops[k].ok
        /\ \A j, k \in WriteIdx : j < k => ops[j].ci <= ops[k].ci
        /\ \A i \in 0..(NumChunks - 1) :
              LET w == WrittenFor(i)
              IN  /\ Len(w) = FragmentCount(i)
                  /\ \A f \in 1..(Len(w) - 1) : Len(w[f]) = 509
                  /\ Len(w[Len(w)]) \in 1..509
                  /\ Flatten(w) = WireHeader(i) \o PayloadChunk(i)
                  /\ w[1][5] = (IF i = 0 THEN 0 ELSE 2)

C4_Witness ==
    /\ NumChunks = 3
    /\ C4_AllAcknowledged
    /\ gifResult = "nil"

(***************************************************************************)
(* C5: when ReadResponse returns an error for a chunk, SendGIF returns an  *)
(* error at once: the failed read is the last thing it did, so the chunk   *)
(* is not sent again, no later chunk is sent and no second read is made.   *)
(***************************************************************************)
C5_ReadFailed(k) == IsRead(k) /\ ~ops[k].ok

C5_ReadErrorAborts ==
    \A k \in OpIdx :
        C5_ReadFailed(k) =>
            /\ Returned /\ gifResult = "read_failed"
            /\ k = Len(ops)
            /\ Len(WrittenFor(ops[k].ci)) = FragmentCount(ops[k].ci)
            /\ \A j \in OpIdx : ops[j].ci <= ops[k].ci

C5_Witness ==
    /\ NumChunks = 3
    /\ \E k \in OpIdx : C5_ReadFailed(k) /\ ops[k].ci = 1
    /\ gifResult = "read_failed"

(***************************************************************************)
(* C6 as stated: a reply that is shorter than 5 bytes, or is not a 5-byte  *)
(* frame beginning 05 00 01 00, or whose status byte is neither 01 nor 03, *)
(* makes SendGIF return an unexpected-response error and send nothing      *)
(* further.                                                                *)
(***************************************************************************)
UnexpectedResponse(k) ==
    /\ Returned
    /\ gifResult \in {"unexpected_code", "unexpected_format"}
    /\ k = Len(ops)

C6_NotFiveByteStatusFrameIsError ==
    \A k \in ReadIdx :
        (/\ ops[k].ok
         /\ \/ Len(ops[k].data) < 5
            \/ ~(Len(ops[k].data) = 5 /\ GoodPrefix(ops[k].data))
            \/ StatusOf(ops[k].data) \notin {1, 3})
        => UnexpectedResponse(k)

(***************************************************************************)
(* C6 amended: a reply that is shorter than 5 bytes, or whose first four   *)
(* bytes are not 05 00 01 00, or whose fifth byte is neither 01 nor 03,    *)
(* makes SendGIF return an unexpected-response error and send nothing      *)
(* further; bytes after the fifth are not looked at, so a longer reply     *)
(* with those first four bytes is taken by its fifth byte and is no        *)
(* unexpected response.                                                    *)
(***************************************************************************)
C6_Malformed(r) == Len(r) < 5 \/ ~GoodPrefix(r) \/ StatusOf(r) \notin {1, 3}

C6_MalformedReplyIsError ==
    \A k \in ReadIdx :
        ops[k].ok =>
            /\ C6_Malformed(ops[k].data) => UnexpectedResponse(k)
            /\ ~C6_Malformed(ops[k].data) => ~UnexpectedResponse(k)

C6_Witness ==
    /\ \E k \in ReadIdx :
          /\ ops[k].ok /\ ops[k].ci = 1
          /\ ops[k].data = <<5, 0, 1, 0, 2>>
          /\ gifResult = "unexpected_code"
    /\ \E k \in ReadIdx : ops[k].ok /\ Len(ops[k].data) = 6

(***************************************************************************)
(* C7: every chunk header written during one SendGIF call carries the      *)
(* CRC-32/IEEE of the whole payload in bytes 9-12 and the payload length   *)
(* in bytes 5-8, whatever the chunk index and the replies received.        *)
(***************************************************************************)
\* the first fragment of a chunk holds its header
IsHeaderPacket(k) == IsWrite(k) /\ (k = 1 \/ ~IsWrite(k - 1))

\* the check value of CRC-32/IEEE: the checksum of "123456789" is 0xCBF43926
CRC32CheckValue ==
    ChecksumIEEE(<<49, 50, 51, 52, 53, 54, 55, 56, 57>>) = [hi |-> 52212, lo |-> 14630]

C7_SameChecksumAndLength ==
    /\ CRC32CheckValue
    /\ gifData = Payload(Len(gifData))
    /\ \A k \in OpIdx :
          IsHeaderPacket(k) =>
              /\ Len(ops[k].data) >= 16
              /\ Uint32(SubSeq(ops[k].data, 10, 13)) = PayloadChecksum[Len(gifData)]
              /\ Uint32(SubSeq(ops[k].data, 6, 9)) = ToUint32(Len(gifData))
              /\ ops[k].data[6] + 256 * ops[k].data[7] + 65536 * ops[k].data[8]
                    = Len(gifData)

C7_Witness ==
    /\ Cardinality({k \in OpIdx : IsHeaderPacket(k)}) = 3
    /\ \E k \in ReadIdx : ops[k].data = <<5, 0, 1, 0, 1, 7>>

(***************************************************************************)
(* Vocabulary of the connection-manager claims.                            *)
(***************************************************************************)
\* callers whose unit of work is executing
InFn == {c \in Callers : cpc[c] = "fn"}

\* two writes of one unit of work with a write of another unit, to the same
\* session, between them
Interleaved(a, b) ==
    /\ a # b
    /\ a \in InFn /\ b \in InFn
    /\ cdev[a] = cdev[b]
    /\ \E i, j, k \in 1..Len(wlog) :
          i < j /\ j < k /\ wlog[i] = a /\ wlog[j] = b /\ wlog[k] = a

ConnectInProgress == \E g \in Loops : lpc[g] = "connecting"

(***************************************************************************)
(* C8: withDevice gives the caller's function exclusive device access: no  *)
(* two units of work execute at once, and the WritePacket calls of two     *)
(* units of work are never interleaved on one session.                     *)
(***************************************************************************)
C8_ExclusiveDeviceAccess ==
    /\ Cardinality(InFn) <= 1
    /\ \A a, b \in Callers : ~Interleaved(a, b)

C10_RejectedWithoutWaiting ==
    \A c \in Callers :
        (cpc[c] = "lock" /\ ~connected) => ENABLED withDeviceEnter(c)

(***************************************************************************)
(* Claims C11 - C15: the connection manager's state machine.               *)
(***************************************************************************)
\* withDevice(c) returns from fn (server.go:204) in this step
FnReturns(c) == cpc[c] = "fn" /\ cpc'[c] # "fn"
\* withDevice(c) executes server.go:206-210 in this step
LossHandled(c) == cpc[c] = "lost" /\ cpc'[c] = "idle"
\* "go s.reconnect()" starts a goroutine in this step
ReconnectLaunched == \E g \in Loops \ {0} : lpc[g] = "free" /\ lpc'[g] = "start"
\* goroutines that passed the guard and are inside their retry loop
Running == {g \in Loops : lpc[g] \in {"attempt", "connecting"}}
\* goroutines that exist (launched, not yet returned)
Alive == {g \in Loops : lpc[g] # "free"}
EstablishedLinks == {d \in Devices : link[d] = "up"}

\* C11: when fn returns an error the classifier matches, withDevice clears
\* s.connected, launches the retry goroutine and returns the generic
\* "device disconnected, reconnecting..." error; nil and every other error
\* are returned unchanged and leave the connection state as it was.
C11_ConnectionLossHandling ==
    [][\A c \in Callers :
         /\ FnReturns(c) =>
              /\ (cpc'[c] = "lost") <=> isConnectionError(cerr'[c])
              /\ (cpc'[c] = "idle") =>
                    /\ cret'[c] = cerr'[c]
                    /\ UNCHANGED <<connected, reconnecting, device, lpc>>
         /\ LossHandled(c) =>
              /\ isConnectionError(cerr[c])
              /\ connected' = FALSE
              /\ ReconnectLaunched
              /\ cret'[c] = errReconnecting
              /\ cret'[c] # cerr[c]]_vars

C11_Witness ==
    \E c \in Callers :
      /\ cpc[c] = "idle"
      /\ cerr[c] = "timeout waiting for response"
      /\ cret[c] = errReconnecting
      /\ ~connected
      /\ \E g \in Loops \ {0} : lpc[g] = "start"

\* C12: at most one goroutine is inside a connect/reconnect retry loop, and
\* s.reconnecting is set exactly while one is.
C12_AtMostOneRetryLoop ==
    /\ Cardinality(Running) <= 1
    /\ reconnecting <=> Running # {}

\* a second goroutine was launched while a loop is running
C12_Witness ==
    /\ Cardinality(Running) = 1
    /\ \E g \in Loops \ Running : lpc[g] = "start"
    /\ \A c \in Callers : cret[c] = errReconnecting

\* C13: at most one Device has an established link at any time.
C13_AtMostOneEstablishedLink == Cardinality(EstablishedLinks) <= 1

\* the connection state of the spec, read off the Server fields
ConnState ==
    IF connected THEN "Connected"
    ELSE IF \E d \in Devices : btDevice[d] THEN "Reconnecting"
    ELSE IF lpc[0] = "start" THEN "Disconnected"
    ELSE "Connecting"

ConnEdges ==
    { <<"Disconnected", "Connecting">>, <<"Connecting", "Connected">>,
      <<"Connected", "Reconnecting">>, <<"Reconnecting", "Connected">> }

\* C14: the state moves only along Disconnected -> Connecting -> Connected
\* and Connected -> Reconnecting -> Connected; s.connected is set only by a
\* Connect attempt of a retry loop that succeeded, it is cleared only by
\* withDevice after a connection error or by a reconnect goroutine such a
\* withDevice launched, and while it is set s.device is the Device whose
\* Connect succeeded.
C14_StateMachine ==
    [][/\ (ConnState' # ConnState) => (<<ConnState, ConnState'>> \in ConnEdges)
       /\ (~connected /\ connected') =>
             \E g \in Loops : /\ lpc[g] = "connecting" /\ lpc'[g] = "free"
                              /\ ~btDevice[device] /\ btDevice'[device]
                              /\ device' = device
       /\ (connected /\ ~connected') =>
             \/ \E c \in Callers : LossHandled(c)
             \/ \E g \in Loops \ {0} : lpc[g] = "start" /\ lpc'[g] = "attempt"
       /\ ReconnectLaunched => \E c \in Callers : LossHandled(c)
       /\ connected' => /\ device' # 0
                        /\ btDevice'[device']
                        /\ link'[device'] = "up"]_vars

\* Connected again, on a second Device, after a connection loss
C14_Witness ==
    /\ connected
    /\ device > 1
    /\ \E d \in Devices : d # device /\ btDevice[d] /\ link[d] = "down"

\* steps of retry goroutine g
LoopStep(g) ==
    \/ g = 0 /\ connectInBackgroundStart
    \/ reconnectStart(g)
    \/ connectBegin(g)
    \/ connectEnd(g)

\* SpecServer with fair scheduling of the retry goroutines
FairSpecServer == SpecServer /\ \A g \in Loops : WF_vars(LoopStep(g))

\* NewDevice cannot be called again within the bound MaxDevices
AttemptsExhausted ==
    /\ nextDevice = MaxDevices
    /\ \A g \in Loops : lpc[g] # "connecting"

OkReads == {k \in ReadIdx : ops[k].ok}

\* C16: the queue never holds more than one notification; a notification
\* that arrives while one is queued is discarded and the queued one stays;
\* the callback can always run (it never waits for room in the queue).
C16_QueueDropsNewest ==
    /\ [](Len(responseChan) <= 1)
    /\ [](pending = "inflight" => ENABLED StaleNotify)
    /\ [](Len(sent) < chunksReceived => ENABLED DeviceReply)
    /\ [][((DeviceReply \/ StaleNotify) /\ Len(responseChan) = 1)
             => responseChan' = responseChan]_vars

\* the device's reply to chunk 0 was discarded: the queue still holds the
\* notification of the earlier operation that arrived first
C16_Witness ==
    /\ Len(sent) = 1
    /\ OkReads = {}
    /\ Len(responseChan) = 1
    /\ chanOld = <<TRUE>>
    /\ responseChan[1] # sent[1]

C18_FirstReplyNeverStale ==
    /\ (ops # << >>) => (ops[1] = OpDrain)
    /\ \A k \in OkReads : ops[k].ci = 0 => ~ops[k].old

(***************************************************************************)
(* Claims C19 - C20: chunking and the static image transfer.               *)
(***************************************************************************)
\* bytes idx*4096+1 .. of the image, cut from the payload directly
ImageChunk(i) ==
    SubSeq(imageData, 4096 * i + 1, min(4096 * (i + 1), Len(imageData)))
ImageChunkCount == (Len(imageData) + 4095) \div 4096
\* header and data of every chunk, in order, as the claim states them
ExpectedImageStream ==
    Flatten([i \in 1..ImageChunkCount |->
               << (Len(ImageChunk(i - 1)) + 9) % 256,
                  (Len(ImageChunk(i - 1)) + 9) \div 256,
                  0, 0,
                  IF i = 1 THEN 0 ELSE 2,
                  Len(imageData) % 256,
                  (Len(imageData) \div 256) % 256,
                  (Len(imageData) \div 65536) % 256,
                  Len(imageData) \div 16777216 >>
               \o ImageChunk(i - 1)])
WrittenStream == Flatten([k \in 1..Len(written) |-> written[k].data])

\* C19: the chunks chunkBuffer(P, 4096) returns concatenate to P; none is
\* empty, all but the last have 4096 bytes, the empty payload has no chunk.
C19_ChunkRoundTrip ==
    ipc # "call" =>
      /\ Flatten(chunks) = imageData
      /\ \A i \in 1..Len(chunks) :
           /\ Len(chunks[i]) > 0
           /\ Len(chunks[i]) <= 4096
           /\ (i < Len(chunks)) => (Len(chunks[i]) = 4096)
      /\ (Len(imageData) = 0) => (chunks = << >>)
      /\ Len(chunks) = ImageChunkCount

C19_Witness ==
    /\ ipc # "call"
    /\ Len(imageData) = 4097
    /\ Len(chunks) = 2
    /\ Len(chunks[2]) = 1

\* C20: the packets SendImage writes concatenate to header 0, chunk 0,
\* header 1, chunk 1, ... with the stated header fields, and no written
\* packet is longer than 514 bytes.
C20_ImageStream ==
    /\ \A k \in 1..Len(written) :
         Len(written[k].data) <= 514 /\ Len(written[k].data) > 0
    /\ (imgResult = "nil") => (WrittenStream = ExpectedImageStream)
    /\ (ipc = "done" /\ imgResult # "nil") =>
         /\ Len(WrittenStream) <= Len(ExpectedImageStream)
         /\ WrittenStream = SubSeq(ExpectedImageStream, 1, Len(WrittenStream))

C20_Witness ==
    /\ imgResult = "nil"
    /\ ImageChunkCount = MaxChunks
    /\ Len(written) > MaxChunks
    /\ \A k \in 1..Len(written) : written[k].ok

(***************************************************************************)
(* Claims C21 - C30.                                                       *)
(***************************************************************************)
\* a step of the SendImage call itself
SendImageStep == ipc' # ipc \/ written' # written

\* C21: no step of SendImage or WriteData receives from or drains the
\* notification queue, and a write never waits for a reply: it can be made
\* whatever the queue holds.
C21_ImageNeverReadsQueue ==
    /\ [][SendImageStep => responseChan' = responseChan]_vars
    /\ [](ipc = "write" => ENABLED SendImageWrite)

\* the transfer of several chunks is over and a notification that arrived
\* during it is still queued
C21_Witness ==
    /\ imgResult = "nil"
    /\ Len(chunks) > 1
    /\ Len(responseChan) = 1

\* a Disconnect call returns in this step
DisconnectReturns == Len(dret') = Len(dret) + 1
LastRet(q) == q[Len(q)]

\* C22: Disconnect on a Device that never connected does nothing and
\* returns nil; Disconnect on a Device whose link an earlier Disconnect
\* closed leaves the link as it is and returns nil.
C22_DisconnectIdempotent ==
    [][DisconnectReturns =>
         /\ (~dbt) => (dlink' = dlink /\ LastRet(dret') = "nil")
         /\ (dbt /\ dlink = "down") =>
               (dlink' = dlink /\ LastRet(dret') = "nil")]_vars

\* index of the first advertisement the callback selects, 0 if none
FirstMatch ==
    LET hits == {i \in 1..Len(adverts) : scanMatch(targetAddr, adverts[i])}
    IN  IF hits = {} THEN 0 ELSE CHOOSE i \in hits : \A j \in hits : i <= j

CharOrd(c) ==
    CASE c = "-" -> 45 [] c = "A" -> 65 [] c = "B" -> 66 [] c = "D" -> 68
      [] c = "I" -> 73 [] c = "M" -> 77 [] c = "X" -> 88 [] OTHER -> 0

\* a <= b in the order of sort.Strings
RECURSIVE StrLeq(_, _)
StrLeq(a, b) ==
    IF a = << >> THEN TRUE
    ELSE IF b = << >> THEN FALSE
    ELSE IF CharOrd(Head(a)) # CharOrd(Head(b)) THEN CharOrd(Head(a)) < CharOrd(Head(b))
    ELSE StrLeq(Tail(a), Tail(b))

\* C24: with no target the device Connect selects is the alphabetically
\* first of the advertising devices whose names start with "IDM-".
C24_AlphabeticallyFirst ==
    (targetAddr = << >> /\ scanResult # NoScanResult) =>
      \A i \in 1..Len(adverts) :
        HasPrefix(adverts[i].name, DeviceNamePrefix)
          => StrLeq(scanResult.name, adverts[i].name)

\* C25: with no target address and no advertised name that starts with the
\* prefix, the Connect call returns.
C25_DiscoveryTerminates ==
    (/\ targetAddr = << >>
     /\ \A i \in 1..Len(adverts) : ~HasPrefix(adverts[i].name, DeviceNamePrefix))
      => <>(dpc \in {"ready", "failed"})

CallDone(fn) == cmdpc = "done" /\ cmd.fn = fn

\* C26: SetPixels writes nothing for no points; otherwise one packet with
\* the first min(N, 255) points in order, whose length and little-endian
\* size field are both 8 + 2 * min(N, 255).
C26_SetPixelsPacket ==
    CallDone("SetPixels") =>
      LET n == Len(cmd.points)
          m == IF n < 255 THEN n ELSE 255
      IN  IF n = 0 THEN cmdOut = << >>
          ELSE /\ Len(cmdOut) = 1
               /\ Len(cmdOut[1]) = 8 + 2 * m
               /\ cmdOut[1][1] + 256 * cmdOut[1][2] = 8 + 2 * m
               /\ SubSeq(cmdOut[1], 3, 8)
                    = <<5, 1, 0, cmd.color[1], cmd.color[2], cmd.color[3]>>
               /\ \A i \in 1..m :
                    /\ cmdOut[1][8 + 2 * i - 1] = cmd.points[i].X
                    /\ cmdOut[1][8 + 2 * i] = cmd.points[i].Y

\* 300 points: one packet of 518 bytes
C26_Witness ==
    /\ CallDone("SetPixels")
    /\ Len(cmd.points) = 300
    /\ Len(cmdOut) = 1
    /\ Len(cmdOut[1]) = 518
    /\ cmdOut[1][1] = 6 /\ cmdOut[1][2] = 2

\* C27: SetClockMode writes the one packet 8,0,6,1,styleByte,R,G,B where
\* bits 0-5 of styleByte are the style, bit 0x40 is set exactly when hour24
\* and bit 0x80 exactly when the date is shown.
C27_ClockModePacket ==
    CallDone("SetClockMode") =>
      /\ Len(cmdOut) = 1
      /\ Len(cmdOut[1]) = 8
      /\ SubSeq(cmdOut[1], 1, 4) = <<8, 0, 6, 1>>
      /\ SubSeq(cmdOut[1], 6, 8) = cmd.color
      /\ cmdOut[1][5] % 64 = cmd.style
      /\ ((cmdOut[1][5] \div 64) % 2 = 1) <=> cmd.hour24
      /\ ((cmdOut[1][5] \div 128) % 2 = 1) <=> cmd.visibleDate

\* weekday with Monday = 1 ... Sunday = 7
IsoWeekday(t) == ((Weekday(t) + 6) % 7) + 1

\* C28: the set-time packet is 0x0B,0x00,0x01,0x80, two-digit year, month,
\* day, weekday (Monday = 1), hour, minute, second.
C28_SetTimePacket ==
    CallDone("SetTime") =>
      cmdOut = << <<11, 0, 1, 128, cmd.t.year % 100, cmd.t.month, cmd.t.day,
                    IsoWeekday(cmd.t), cmd.t.hour, cmd.t.minute, cmd.t.second>> >>

C30_SuccessOnlyAfterComplete ==
    (Returned /\ gifResult = "nil") =>
        /\ OkReads # {}
        /\ \E k \in OkReads :
             /\ \A j \in OkReads : j <= k
             /\ StatusOf(ops[k].data) = 3

\* a caller whose unit of work ran on a session that is no longer s.device,
\* while the manager is connected on the session that replaced it
StaleLoss(c) == cpc[c] = "lost" /\ cdev[c] # device /\ connected /\ link[device] = "up"

\* C31: when withDevice handles the connection error of a unit of work that
\* ran on a superseded session, the manager stays connected and the current
\* session keeps its link.
C31_StaleLossIgnored ==
    [][\A c \in Callers :
         (StaleLoss(c) /\ cpc'[c] = "idle") =>
             /\ connected'
             /\ link'[device'] = "up"]_vars

\* C32: no packet a command hands to WritePacket is longer than 514 bytes.
C32_PacketWithinMTU ==
    \A k \in 1..Len(cmdOut) : Len(cmdOut[k]) <= maxMTU

\* the errors of SendGIF among the errors a unit of work returns
GifTimeoutError == "chunk 1: read response failed: timeout waiting for response"
GifProtocolErrors ==
    {"chunk 2/3: device returned 'upload complete' prematurely (expected 'continue')",
     "chunk 1: unexpected response code: 2",
     "chunk 1: unexpected response format: [5 0 1]"}

\* the errors of the model whose lower-cased text contains 'disconnected',
\* 'not connected', 'connection' or 'timeout'
ExpectedLoss ==
    {"timeout waiting for response", GifTimeoutError, "write failed: Not Connected"}

\* C34: the classifier is true exactly for the errors whose lower-cased text
\* contains one of the four substrings; a SendGIF read timeout returned by a
\* unit of work takes the manager to Reconnecting, and the protocol-violation
\* errors of SendGIF reach the caller unchanged and leave the manager alone.
C34_Classifier ==
    [][\A c \in Callers :
         /\ (cpc[c] = "fn" /\ cpc'[c] # "fn") =>
              /\ isConnectionError(cerr'[c]) <=> cerr'[c] \in ExpectedLoss
              /\ (cpc'[c] = "lost") <=> cerr'[c] \in ExpectedLoss
              /\ cerr'[c] \in GifProtocolErrors =>
                   /\ cret'[c] = cerr'[c]
                   /\ cpc'[c] = "idle"
                   /\ UNCHANGED <<connected, reconnecting, device, link, lpc>>
         /\ (cpc[c] = "lost" /\ cerr[c] = GifTimeoutError /\ cpc'[c] = "idle") =>
              /\ ~connected'
              /\ \E g \in Loops : lpc[g] = "free" /\ lpc'[g] = "start"
              /\ cret'[c] = errReconnecting]_vars

\* one caller was told of a reconnect after a SendGIF read timeout, another
\* got a protocol-violation error of SendGIF back
C34_Witness ==
    /\ ~connected
    /\ \E c \in Callers : cerr[c] = GifTimeoutError /\ cret[c] = errReconnecting
    /\ \E c \in Callers : cret[c] \in GifProtocolErrors

\* C33: the session handed to a unit of work or to a new snake game was read
\* while the manager was connected: it is not nil and its Connect succeeded.
C33_HandedSessionIsCurrent ==
    /\ \A c \in Callers : cpc[c] = "fn" => cdev[c] # 0 /\ btDevice[cdev[c]]
    /\ \A g \in Games :
         gpos[g] # "none" =>
             /\ gdev[g].dev # 0
             /\ gdev[g].connected
             /\ gdev[g].established

\* the goroutines of games that have not returned
LiveGames == {g \in Games : gpos[g] \notin {"none", "finished"}}

\* C39: at most one game goroutine is alive; StartSession with an active
\* session returns its ID and creates nothing; when StopSession returns, no
\* session remains and no game goroutine is alive.
C39_AtMostOneGame ==
    /\ Cardinality(LiveGames) <= 1
    /\ (smu = "free" /\ sret = 0 /\ session = 0) => LiveGames = {}

\* Connect has returned
ConnectReturned == dpc \in {"ready", "failed"}

\* C35: Connect returns success only when the service was found and exactly
\* two characteristics were discovered, one the write and the other the
\* notify characteristic; in every other case Connect returns an error.
C35_SuccessNeedsBothCharacteristics ==
    LET good == /\ dsvc = Discovered(FALSE, <<serviceId>>)
                /\ ~dchars.err
                /\ Len(dchars.ids) = 2
                /\ {dchars.ids[i] : i \in 1..2}
                     = {writeCharacteristicId, readCharacteristicId}
    IN  dsvc.called =>
          /\ dpc = "ready" => good
          /\ ~good => dpc = "failed" /\ derr \notin {"nil", "none"}

\* C36: once Connect has returned, an established link belongs to the
\* session (d.btDevice is set, so that Disconnect closes it).
C36_NoLinkLeftOpen ==
    (ConnectReturned /\ dlink = "up") => dbt

\* C37: Connect returns success only with the notification subscription
\* active.
C37_SuccessMeansSubscribed ==
    (dpc = "ready" /\ derr = "nil") => dnotif

\* C38: a WritePacket that fails during SendImage (inside WriteData) is the
\* last packet written, and the call has returned with that same error.
C38_WriteErrorPropagates ==
    /\ \A k \in 1..Len(written) :
         ~written[k].ok =>
             /\ k = Len(written)
             /\ ipc = "done"
             /\ imgResult = written[k].err
    /\ (ipc = "done" /\ imgResult # "nil") =>
         /\ written # << >>
         /\ written[Len(written)].err = imgResult

\* the second fragment of the second chunk failed: nothing was written after
\* it, although more of the image was left to send
C38_Witness ==
    /\ ipc = "done"
    /\ Len(written) > 9
    /\ imgResult = "write failed: Not Connected"
    /\ ~written[Len(written)].ok
    /\ Len(WrittenStream) < Len(ExpectedImageStream)

\* the rows of the board ClearLines was called on that are completely filled
FullRows0 == {y \in BoardRows : isLineComplete(cells0, y)}

\* the number of filled rows of the original board below row y
FullBelow0(y) == Cardinality({z \in FullRows0 : z > y})

\* C40: ClearLines returns the number of completely filled rows; afterwards
\* no row is completely filled, every other row lies lower by the number of
\* filled rows that were below it, and as many empty rows are at the top.
C40_ClearLines ==
    bpc = "done" =>
      /\ linesCleared = Cardinality(FullRows0)
      /\ \A y \in BoardRows : ~isLineComplete(Cells, y)
      /\ \A y \in BoardRows \ FullRows0 : Cells[y + FullBelow0(y)] = cells0[y]
      /\ \A y \in BoardRows :
           y < linesCleared => \A x \in BoardCols : Cells[y][x] = EmptyCell

\* two filled rows that touch, a partly filled row above them and one below
C40_Witness ==
    /\ bpc = "done"
    /\ linesCleared = 2
    /\ FullRows0 = {1, 2}
    /\ \E x \in BoardCols : cells0[0][x].Occupied
    /\ \E x \in BoardCols : cells0[3][x].Occupied
    /\ Cells[2] = cells0[0]
    /\ Cells[3] = cells0[3]
====
